---- MODULE Spec2Model ----
(***************************************************************************)
(* Verification model of the chord pad: pitch-class utilities, chord       *)
(* parsing, the pad voicing builder and the roman-numeral analyzer          *)
(* (src/lib/voicing.ts, second revision, lines 387-865), the performance   *)
(* event builder (src/unnamed/part_001) and the Hold bookkeeping of the     *)
(* page (src/unnamed/part_000).                                             *)
(***************************************************************************)
EXTENDS Integers, Sequences, FiniteSets, TLC

VARIABLES
  \* signedSemitoneDiff(fromPc, toPc)
  fromPc, toPc, signed,
  \* applyDrop(closed, kind)
  closed, kind, dropped,
  \* padModels[i] = buildPadVoicing(chord, centerOctave, preset, shift, {omit})
  padChord, padOctave, padPreset, padShift, padOmit, padModel,
  \* events = buildNoteEvents(evNotes, evMidis, evPerf, evDur)
  evNotes, evMidis, evPerf, evDur, events,
  \* roman = romanizeChord(rnChord, analysisKey)
  rnChord, analysisKey, roman,
  \* mudOut = clampLowMud(mudIn, mudFloor)
  mudIn, mudFloor, mudOut,
  \* stacked = the voices placed above stackAnchor, one per pitch class
  stackAnchor, stackPcs, stackOctave, stackForm, stacked,
  \* the cores that getChordGuidePcs and parseChordSymbol look up for chordText
  chordText, guideCore, parseCore,
  \* the pads and the refs of the page that track Holds
  holdPads, activeHold, holdMidis, guidePadIdx, rafSync, activeMidis,
  \* Tone: Transport state and scheduled callbacks, next schedule id, the
  \* synth and its sounding voices
  transport, transportState, nextId, synthReady, sounding,
  \* startHoldByIndex calls parked on their await
  awaiting,
  \* the input devices: what is held down, the last input per pad index,
  \* the number of presses so far
  down, lastInput, presses,
  \* the one-shot visualization refs, and the pending window timeouts
  oneShotMidis, oneShotTimer, timers

varsPitch == <<fromPc, toPc, signed>>
varsDrop  == <<closed, kind, dropped>>
varsVoicing == <<padChord, padOctave, padPreset, padShift, padOmit, padModel>>
varsPerf  == <<evNotes, evMidis, evPerf, evDur, events>>
varsRoman == <<rnChord, analysisKey, roman>>
varsMud   == <<mudIn, mudFloor, mudOut>>
varsStack == <<stackAnchor, stackPcs, stackOctave, stackForm, stacked>>
varsCore  == <<chordText, guideCore, parseCore>>
varsOneShot == <<oneShotMidis, oneShotTimer, timers>>
varsHold  == <<holdPads, activeHold, holdMidis, guidePadIdx, rafSync,
               activeMidis, transport, transportState, nextId, synthReady,
               sounding, awaiting, down, lastInput, presses, varsOneShot>>
vars      == <<varsPitch, varsDrop, varsVoicing, varsPerf, varsRoman, varsMud,
               varsStack, varsCore, varsHold>>

\* What an operation of one part leaves alone: the state of the others.
othersPitch   == <<varsDrop, varsVoicing, varsPerf, varsRoman, varsMud,
                   varsStack, varsCore, varsHold>>
othersDrop    == <<varsPitch, varsVoicing, varsPerf, varsRoman, varsMud,
                   varsStack, varsCore, varsHold>>
othersVoicing == <<varsPitch, varsDrop, varsPerf, varsRoman, varsMud,
                   varsStack, varsCore, varsHold>>
othersPerf    == <<varsPitch, varsDrop, varsVoicing, varsRoman, varsMud,
                   varsStack, varsCore, varsHold>>
othersRoman   == <<varsPitch, varsDrop, varsVoicing, varsPerf, varsMud,
                   varsStack, varsCore, varsHold>>
othersMud     == <<varsPitch, varsDrop, varsVoicing, varsPerf, varsRoman,
                   varsStack, varsCore, varsHold>>
othersStack   == <<varsPitch, varsDrop, varsVoicing, varsPerf, varsRoman,
                   varsMud, varsCore, varsHold>>
othersHold    == <<varsPitch, varsDrop, varsVoicing, varsPerf, varsRoman,
                   varsMud, varsStack, varsCore>>
othersCore    == <<varsPitch, varsDrop, varsVoicing, varsPerf, varsRoman,
                   varsMud, varsStack, varsHold>>

\* A result is <<>> until it is computed, then <<value>>.
Pending == <<>>
Done(v) == <<v>>
IsDone(x) == x # <<>>
Val(x) == x[1]

\* ------------------------------------------------------------------
\* Arithmetic and sequence helpers with the semantics of the JS runtime
\* ------------------------------------------------------------------

\* JS remainder: the sign of the result follows the dividend.
JsMod(a, n) == IF a >= 0 THEN a % n ELSE -((-a) % n)

Abs(x) == IF x < 0 THEN -x ELSE x
Max2(a, b) == IF a >= b THEN a ELSE b
Min2(a, b) == IF a <= b THEN a ELSE b

\* Math.ceil(a / b) for b > 0.
CeilDiv(a, b) == IF a >= 0 THEN (a + b - 1) \div b ELSE -((-a) \div b)

RECURSIVE InsertSorted(_, _)
InsertSorted(s, x) ==
  IF s = <<>> THEN <<x>>
  ELSE IF x < Head(s) THEN <<x>> \o s
       ELSE <<Head(s)>> \o InsertSorted(Tail(s), x)

\* [...a].sort((x, y) => x - y) on numbers.
RECURSIVE SortNum(_)
SortNum(s) ==
  IF s = <<>> THEN <<>>
  ELSE InsertSorted(SortNum(SubSeq(s, 1, Len(s) - 1)), s[Len(s)])

RECURSIVE SeqMin(_)
SeqMin(s) == IF Len(s) = 1 THEN s[1] ELSE Min2(s[1], SeqMin(Tail(s)))

RECURSIVE SeqMax(_)
SeqMax(s) == IF Len(s) = 1 THEN s[1] ELSE Max2(s[1], SeqMax(Tail(s)))

\* All sequences over S of length 0..n.
SeqsUpTo(S, n) == UNION {[1..k -> S] : k \in 0..n}

\* ------------------------------------------------------------------
\* Pitch-class utilities (voicing.ts 441-482)
\* ------------------------------------------------------------------

\* A pitch class string is a letter followed by accidental characters:
\* [letter |-> "C", acc |-> <<"#", "#">>] stands for "C##".
MaxAccLen == 2

UpperLetters == {"C", "D", "E", "F", "G", "A", "B"}
LowerLetters == {"c", "d", "e", "f", "g", "a", "b"}
AccChars     == {"#", "b"}

PitchClassStrings ==
  [letter : UpperLetters \cup LowerLetters, acc : SeqsUpTo(AccChars, MaxAccLen)]

LETTER_BASE == [C |-> 0, D |-> 2, E |-> 4, F |-> 5, G |-> 7, A |-> 9, B |-> 11]

toUpperCase(ch) ==
  CASE ch = "c" -> "C" [] ch = "d" -> "D" [] ch = "e" -> "E" [] ch = "f" -> "F"
    [] ch = "g" -> "G" [] ch = "a" -> "A" [] ch = "b" -> "B" [] OTHER -> ch

normalizePc(pc) == [letter |-> toUpperCase(pc.letter), acc |-> pc.acc]

RECURSIVE accDelta(_)
accDelta(acc) ==
  IF acc = <<>> THEN 0
  ELSE (IF Head(acc) = "#" THEN 1 ELSE 0) - (IF Head(acc) = "b" THEN 1 ELSE 0)
       + accDelta(Tail(acc))

pcToSemitone(pc) ==
  LET s     == normalizePc(pc)
      base  == IF s.letter \in DOMAIN LETTER_BASE THEN LETTER_BASE[s.letter] ELSE 0
      delta == accDelta(s.acc)
      v     == JsMod(base + delta, 12)
  IN IF v < 0 THEN v + 12 ELSE v

signedSemitoneDiff_NoRecenter(a0, b0) ==
  LET a == pcToSemitone(a0)
      b == pcToSemitone(b0)
  IN JsMod(b - a + 12, 12)

signedSemitoneDiff_TiePositive(a0, b0) ==
  LET a == pcToSemitone(a0)
      b == pcToSemitone(b0)
      d == JsMod(b - a + 12, 12)
  IN IF d <= 6 THEN d ELSE d - 12

signedSemitoneDiff(a0, b0) ==
  LET a == pcToSemitone(a0)
      b == pcToSemitone(b0)
      d == JsMod(b - a + 12, 12)
  IN JsMod(d + 6, 12) - 6

Pc(l, a) == [letter |-> l, acc |-> a]

\* part_000 247-260
KEY_ROOTS ==
  {Pc("C", <<>>), Pc("D", <<"b">>), Pc("D", <<>>), Pc("E", <<"b">>),
   Pc("E", <<>>), Pc("F", <<>>), Pc("G", <<"b">>), Pc("G", <<>>),
   Pc("A", <<"b">>), Pc("A", <<>>), Pc("B", <<"b">>), Pc("B", <<>>)}

InitPitch ==
  /\ fromPc \in PitchClassStrings
  /\ toPc \in PitchClassStrings
  /\ signed = Pending

\* The page derives the transposition shift from the two key tonics.
ComputeShift ==
  /\ signed = Pending
  /\ signed' = Done(signedSemitoneDiff(fromPc, toPc))
  /\ UNCHANGED <<fromPc, toPc, othersPitch>>

\* The user picks another playback tonic; the shift is recomputed.
SetPlayRoot ==
  /\ IsDone(signed)
  /\ \E r \in KEY_ROOTS :
       /\ toPc' = r
       /\ signed' = Done(signedSemitoneDiff(fromPc, r))
  /\ UNCHANGED <<fromPc, othersPitch>>

NextPitch == ComputeShift \/ SetPlayRoot

\* C3: for all pitch classes a and b, signedSemitoneDiff(a, b) is an integer
\* in [-6, +5] congruent to semitoneOf(b) - semitoneOf(a) modulo 12 (the
\* semitone of a pitch class being its letter's table value plus one per '#'
\* minus one per 'b'), and signedSemitoneDiff(a, a) = 0.
CountChar(acc, ch) == Cardinality({i \in DOMAIN acc : acc[i] = ch})
SemitoneRef(pc) ==
  LETTER_BASE[toUpperCase(pc.letter)] + CountChar(pc.acc, "#") - CountChar(pc.acc, "b")

C3_SignedDiffRange ==
  IsDone(signed) =>
    /\ Val(signed) \in -6..5
    /\ (Val(signed) - (SemitoneRef(toPc) - SemitoneRef(fromPc))) % 12 = 0
    /\ (fromPc = toPc => Val(signed) = 0)

\* C3 witness: a computed diff of a tritone between two doubly altered classes.
C3_Witness ==
  /\ IsDone(signed)
  /\ Val(signed) = -6
  /\ Len(fromPc.acc) = 2
  /\ Len(toPc.acc) = 2

\* The raw distance from fromPc up to toPc on the circle of 12 semitones.
RawDistance == (SemitoneRef(toPc) - SemitoneRef(fromPc)) % 12

\* C23 as stated: signedSemitoneDiff prefers the shorter circular direction
\* with ties broken toward positive: for two pitch classes exactly a tritone
\* apart (raw distance 6) the result is the positive value, +6.
C23_TritonePositive ==
  IsDone(signed) =>
    /\ Abs(Val(signed)) = Min2(RawDistance, 12 - RawDistance)
    /\ RawDistance = 6 => Val(signed) = 6

\* C23 amended: signedSemitoneDiff prefers the shorter circular direction
\* with ties broken toward negative: a raw distance of 0..5 is returned as it
\* is, a raw distance of 6..11 is returned less 12, so two pitch classes
\* exactly a tritone apart give -6.
C23_TritoneNegative ==
  IsDone(signed) =>
    /\ Abs(Val(signed)) = Min2(RawDistance, 12 - RawDistance)
    /\ RawDistance <= 5 => Val(signed) = RawDistance
    /\ RawDistance >= 6 => Val(signed) = RawDistance - 12
    /\ RawDistance = 6 => Val(signed) = -6

\* C23 witness: the shift from C to F sharp, a tritone, computed as -6.
C23_Witness ==
  /\ IsDone(signed)
  /\ fromPc = Pc("C", <<>>)
  /\ toPc = Pc("F", <<"#">>)
  /\ RawDistance = 6
  /\ Val(signed) = -6

IdlePitch ==
  /\ fromPc = [letter |-> "C", acc |-> <<>>]
  /\ toPc = [letter |-> "C", acc |-> <<>>]
  /\ signed = Pending

\* ------------------------------------------------------------------
\* applyDrop (voicing.ts 590-601)
\* ------------------------------------------------------------------

DropKinds == {"drop2", "drop3", "drop24", "drop4"}

applyDrop_Drop2Only(c, k) ==
  IF Len(c) # 4 THEN c
  ELSE SortNum(<<c[1], c[2], c[3] - 12, c[4]>>)

applyDrop(c, k) ==
  IF Len(c) # 4 THEN c
  ELSE IF k = "drop2" THEN SortNum(<<c[1], c[2], c[3] - 12, c[4]>>)
  ELSE IF k = "drop3" THEN SortNum(<<c[1], c[2] - 12, c[3], c[4]>>)
  ELSE IF k = "drop4" THEN SortNum(<<c[1] - 12, c[2], c[3], c[4]>>)
  ELSE SortNum(<<c[1] - 12, c[2], c[3] - 12, c[4]>>)

\* Closed stacks: strictly ascending pitch lists drawn from a window of
\* DropSpan + 1 semitones above DropLow, of length 0..MaxStack.
DropLow  == 48
DropSpan == 13
MaxStack == 5

IsAscending(s) == \A i \in 1..(Len(s) - 1) : s[i] < s[i + 1]

InitDrop ==
  /\ closed = <<>>
  /\ kind \in DropKinds
  /\ dropped = Pending

\* buildClosedFromPcs places one more voice above the stack built so far.
PlaceVoice ==
  /\ dropped = Pending
  /\ Len(closed) < MaxStack
  /\ \E m \in DropLow..(DropLow + DropSpan) :
       /\ closed # <<>> => m > closed[Len(closed)]
       /\ closed' = Append(closed, m)
  /\ UNCHANGED <<kind, dropped, othersDrop>>

ApplyDrop ==
  /\ dropped = Pending
  /\ dropped' = Done(applyDrop(closed, kind))
  /\ UNCHANGED <<closed, kind, othersDrop>>

NextDrop == PlaceVoice \/ ApplyDrop

Range(q) == {q[i] : i \in DOMAIN q}
Count(q, x) == Cardinality({i \in DOMAIN q : q[i] = x})
SameBag(a, b) ==
  /\ Len(a) = Len(b)
  /\ \A x \in Range(a) \cup Range(b) : Count(a, x) = Count(b, x)
IsNonDecreasing(q) == \A i \in 1..(Len(q) - 1) : q[i] <= q[i + 1]

DropExpected(c, k) ==
  CASE k = "drop2"  -> <<c[1], c[2], c[3] - 12, c[4]>>
    [] k = "drop3"  -> <<c[1], c[2] - 12, c[3], c[4]>>
    [] k = "drop4"  -> <<c[1] - 12, c[2], c[3], c[4]>>
    [] k = "drop24" -> <<c[1] - 12, c[2], c[3] - 12, c[4]>>

\* C5: for a closed ascending four-voice stack applyDrop returns, sorted, the
\* stack with the voice(s) named by the drop kind lowered an octave (drop-2:
\* third from the bottom, drop-3: second from the bottom, drop-4: the bottom,
\* drop-2-and-4: the bottom and the third); a stack whose length is not four
\* is returned unchanged.
C5_ApplyDrop ==
  IsDone(dropped) =>
    IF Len(closed) = 4
    THEN /\ IsNonDecreasing(Val(dropped))
         /\ SameBag(Val(dropped), DropExpected(closed, kind))
    ELSE Val(dropped) = closed

\* C5 witness: a drop-3 of a four-voice stack whose lowered voice passes
\* below the bottom voice, so that the re-sort changes the order.
C5_Witness ==
  /\ IsDone(dropped)
  /\ Len(closed) = 4
  /\ kind = "drop3"
  /\ Val(dropped)[1] = closed[2] - 12
  /\ Val(dropped)[2] = closed[1]

IdleDrop ==
  /\ closed = <<>>
  /\ kind = "drop2"
  /\ dropped = Pending

\* ------------------------------------------------------------------
\* Chord-theory lookup (tonal's Chord.get, called at voicing.ts 519)
\* ------------------------------------------------------------------

\* A chord symbol "<root><type>[/<bass>]" is kept tokenized:
\* [root |-> pitch class or <<>>, type |-> characters, slash |-> <<>> or <<pc>>].
None == <<>>
Some(v) == <<v>>

LetterOrder == <<"C", "D", "E", "F", "G", "A", "B">>
LetterIndex(l) == CHOOSE i \in 1..7 : LetterOrder[i] = l

\* An interval name stands for diatonic steps and semitones above the tonic.
IntervalSteps ==
  [P1 |-> 0, m3 |-> 2, M3 |-> 2, d5 |-> 4, P5 |-> 4, A5 |-> 4, d7 |-> 6,
   m7 |-> 6, M7 |-> 6, M9 |-> 8, P11 |-> 10, A11 |-> 10, M13 |-> 12]
IntervalSemitones ==
  [P1 |-> 0, m3 |-> 3, M3 |-> 4, d5 |-> 6, P5 |-> 7, A5 |-> 8, d7 |-> 9,
   m7 |-> 10, M7 |-> 11, M9 |-> 14, P11 |-> 17, A11 |-> 18, M13 |-> 21]

\* The chord types of the model, written as the characters of the symbol.
TypeMajor == <<>>
TypeM7    == <<"m", "7">>
TypeMaj7  == <<"m", "a", "j", "7">>
TypeDom7  == <<"7">>
TypeM7b5  == <<"m", "7", "b", "5">>
TypeFifth == <<"5">>
Type13s11 == <<"1", "3", "#", "1", "1">>
TypeDim   == <<"d", "i", "m">>
TypeAug   == <<"a", "u", "g">>
TypeMa7   == <<"m", "a", "7">>
TypeCapMaj7 == <<"M", "a", "j", "7">>
TypeMinMajDelta == <<"-", "Δ", "7">>
\* A type that the lookup does not know.
TypeUnknown == <<"?">>

ChordTypeIntervals(type) ==
  CASE type = TypeMajor -> <<"P1", "M3", "P5">>
    [] type = TypeM7    -> <<"P1", "m3", "P5", "m7">>
    [] type = TypeMaj7  -> <<"P1", "M3", "P5", "M7">>
    [] type = TypeDom7  -> <<"P1", "M3", "P5", "m7">>
    [] type = TypeM7b5  -> <<"P1", "m3", "d5", "m7">>
    [] type = TypeFifth -> <<"P1", "P5">>
    [] type = Type13s11 -> <<"P1", "M3", "P5", "m7", "M9", "A11", "M13">>
    [] type = TypeDim   -> <<"P1", "m3", "d5">>
    [] type = TypeAug   -> <<"P1", "M3", "A5">>
    [] type = TypeMa7   -> <<"P1", "M3", "P5", "M7">>
    [] type = TypeCapMaj7 -> <<"P1", "M3", "P5", "M7">>
    [] type = TypeMinMajDelta -> <<"P1", "m3", "P5", "M7">>
    [] OTHER            -> <<>>

RECURSIVE Repeat(_, _)
Repeat(ch, n) == IF n <= 0 THEN <<>> ELSE <<ch>> \o Repeat(ch, n - 1)

\* The tonic raised by an interval, spelled on the interval's letter.
TransposePc(tonic, ivl) ==
  LET at      == LetterIndex(tonic.letter) - 1 + IntervalSteps[ivl]
      letter  == LetterOrder[(at % 7) + 1]
      natural == LETTER_BASE[letter] + 12 * (at \div 7)
      target  == LETTER_BASE[tonic.letter] + accDelta(tonic.acc) + IntervalSemitones[ivl]
      alt     == target - natural
  IN [letter |-> letter,
      acc |-> IF alt >= 0 THEN Repeat("#", alt) ELSE Repeat("b", -alt)]

ChordQuality(ivls) ==
  LET has(x) == \E i \in DOMAIN ivls : ivls[i] = x
  IN IF has("A5") THEN "Augmented"
     ELSE IF has("M3") THEN "Major"
     ELSE IF has("d5") THEN "Diminished"
     ELSE IF has("m3") THEN "Minor"
     ELSE "Unknown"

\* Chord.get(core): the tonic is empty when the symbol has no root or the
\* type is not in the table.
ChordGet(root, type) ==
  LET ivls == ChordTypeIntervals(type)
  IN IF root = None \/ ivls = <<>>
     THEN [tonic |-> None, notes |-> <<>>, quality |-> "Unknown"]
     ELSE [tonic |-> Some(Val(root)),
           notes |-> [i \in DOMAIN ivls |-> TransposePc(Val(root), ivls[i])],
           quality |-> ChordQuality(ivls)]

\* ------------------------------------------------------------------
\* Chord parsing (voicing.ts 486-543)
\* ------------------------------------------------------------------

toLowerCase(ch) ==
  CASE ch = "C" -> "c" [] ch = "D" -> "d" [] ch = "E" -> "e" [] ch = "F" -> "f"
    [] ch = "G" -> "g" [] ch = "A" -> "a" [] ch = "B" -> "b" [] ch = "M" -> "m"
    [] ch = "I" -> "i" [] ch = "V" -> "v" [] ch = "Δ" -> "δ"
    [] OTHER -> ch

LowerStr(str) == [i \in DOMAIN str |-> toLowerCase(str[i])]

\* String.prototype.includes on character sequences.
Includes(str, sub) ==
  \E k \in 0..(Len(str) - Len(sub)) :
    \A i \in 1..Len(sub) : str[k + i] = sub[i]

\* The characters of the core symbol (the symbol without its slash bass).
CoreStr(sym) ==
  (IF sym.root = None THEN <<>> ELSE <<Val(sym.root).letter>> \o Val(sym.root).acc)
  \o sym.type

splitSlash(sym) ==
  [core  |-> [root |-> sym.root, type |-> sym.type],
   slash |-> IF sym.slash = None THEN None ELSE Some(normalizePc(Val(sym.slash)))]

guessQuality(symbol, tonalQuality) ==
  LET s == LowerStr(symbol)
  IN IF \/ Includes(s, <<"d", "i", "m">>) \/ Includes(s, <<"o">>)
        \/ Includes(s, <<"m", "7", "b", "5">>) \/ Includes(s, <<"ø">>)
     THEN "diminished"
     ELSE IF Includes(s, <<"a", "u", "g">>) \/ Includes(s, <<"+">>) THEN "augmented"
     \* of the lookup's quality names only "Minor" contains "minor" and only
     \* "Major" contains "major" once lowercased
     ELSE IF tonalQuality = "Minor" THEN "minor"
     ELSE IF tonalQuality = "Major" THEN "major"
     ELSE IF Includes(s, <<"m">>) /\ ~Includes(s, <<"m", "a", "j">>) THEN "minor"
     ELSE "major"

parseChordSymbol(sym) ==
  LET sp == splitSlash(sym)
      c  == ChordGet(sp.core.root, sp.core.type)
  IN IF c.tonic = None THEN None
     ELSE Some([core |-> sp.core,
                slashBass |-> sp.slash,
                tonic |-> normalizePc(Val(c.tonic)),
                notes |-> [i \in DOMAIN c.notes |-> normalizePc(c.notes[i])],
                qualityGuess |-> guessQuality(CoreStr(sp.core), c.quality)])

\* p.notes[idx] ?? null, with idx counted from 0.
toneAt(p, idx) == IF idx + 1 \in DOMAIN p.notes THEN Some(p.notes[idx + 1]) ELSE None
rootPc(p) == p.tonic
thirdPc(p) == toneAt(p, 1)
fifthPc(p) == toneAt(p, 2)
seventhPc(p) == toneAt(p, 3)
ninthPc(p) == toneAt(p, 4)
thirteenthPc(p) == toneAt(p, 6)

\* a ?? b on an optional value.
OrElse(opt, dflt) == IF opt = None THEN dflt ELSE Val(opt)

\* ------------------------------------------------------------------
\* Midi placement (voicing.ts 545-572)
\* ------------------------------------------------------------------

\* Tone.Frequency(pc + oct).toMidi(): the letter's semitone plus the
\* accidentals, unreduced, in the octave whose C is 12 * (oct + 1).
midiFrom(pc, oct) == LETTER_BASE[pc.letter] + accDelta(pc.acc) + 12 * (oct + 1)

RECURSIVE RaiseTo(_, _)
RaiseTo(m, minMidi) == IF m < minMidi THEN RaiseTo(m + 12, minMidi) ELSE m

nearestAbove_BySemitone(pc, minMidi, anchorOct) ==
  Max2(midiFrom(pc, anchorOct), minMidi)

nearestAbove(pc, minMidi, anchorOct) == RaiseTo(midiFrom(pc, anchorOct), minMidi)

LastN(q, n) == SubSeq(q, Max2(1, Len(q) - n + 1), Len(q))

clampLowMud_ShiftAll(midis, minTop) ==
  IF Len(midis) < 2 THEN midis
  ELSE LET sorted == SortNum(midis)
           topMin == SeqMin(LastN(sorted, 3))
       IN IF topMin >= minTop THEN sorted
          ELSE LET delta == 12 * CeilDiv(minTop - topMin, 12)
               IN [i \in DOMAIN sorted |-> sorted[i] + delta]

\* clampLowMud that raises the lowest pitch and leaves the others.
clampLowMud_ShiftLowest(midis, minTop) ==
  IF Len(midis) < 2 THEN midis
  ELSE LET sorted == SortNum(midis)
           topMin == SeqMin(LastN(sorted, 3))
       IN IF topMin >= minTop THEN sorted
          ELSE LET delta == 12 * CeilDiv(minTop - topMin, 12)
               IN [i \in DOMAIN sorted |->
                     IF i = 1 THEN sorted[i] + delta ELSE sorted[i]]

clampLowMud(midis, minTop) ==
  IF Len(midis) < 2 THEN midis
  ELSE LET sorted == SortNum(midis)
           topMin == SeqMin(LastN(sorted, 3))
       IN IF topMin >= minTop THEN sorted
          ELSE LET delta == 12 * CeilDiv(minTop - topMin, 12)
               IN [i \in DOMAIN sorted |-> IF i = 1 THEN sorted[i] ELSE sorted[i] + delta]

applyShift_SkipFirst(midis, shift) ==
  IF shift = 0 THEN midis
  ELSE [i \in DOMAIN midis |-> IF i = 1 THEN midis[i] ELSE midis[i] + shift]

applyShift(midis, shift) ==
  IF shift = 0 THEN midis
  ELSE [i \in DOMAIN midis |-> midis[i] + shift]

\* ------------------------------------------------------------------
\* Voicing builders (voicing.ts 574-779)
\* ------------------------------------------------------------------

\* The placement loop shared by buildClosedFromPcs and the shell, guide and
\* rootless presets: each voice at or above min + 1, then min = m + 1.
RECURSIVE placeLoop(_, _, _)
placeLoop(pcs, min, anchorOct) ==
  IF pcs = <<>> THEN <<>>
  ELSE LET m == nearestAbove(Head(pcs), min + 1, anchorOct)
       IN <<m>> \o placeLoop(Tail(pcs), m + 1, anchorOct)

buildClosedFromPcs(anchorPc, pcs, centerOctave) ==
  IF pcs = <<>> THEN <<>>
  ELSE LET baseOct == Max2(1, centerOctave - 1)
       IN placeLoop(pcs, midiFrom(anchorPc, baseOct) - 1, baseOct)

NoOmit == [root |-> FALSE, third |-> FALSE, fifth |-> FALSE, seventh |-> FALSE]
OmitFlags == [root : BOOLEAN, third : BOOLEAN, fifth : BOOLEAN, seventh : BOOLEAN]

omitOk(deg, omit) == ~omit[deg]

\* pcs.push(x) when the condition holds.
PushIf(cond, x) == IF cond THEN <<x>> ELSE <<>>

PresetIds ==
  {"PAD_TRIAD_BASS_35R", "DROP2_1357_NO_BASS", "DROP3_1357_NO_BASS",
   "DROP24_1357_NO_BASS", "DROP4_1357_NO_BASS", "SHELL_R37_NO_BASS",
   "GUIDE_379_NO_BASS", "ROOTLESS_37_9_NO_BASS"}

DropPresetKind ==
  [DROP2_1357_NO_BASS |-> "drop2", DROP3_1357_NO_BASS |-> "drop3",
   DROP24_1357_NO_BASS |-> "drop24", DROP4_1357_NO_BASS |-> "drop4"]

\* The crowding floors of the presets.
TriadFloor    == 55
DropFloor     == 58
ShellFloor    == 60
GuideFloor    == 60
RootlessFloor == 62

\* PAD_TRIAD_BASS_35R before crowding resolution: the list tmp, and whether
\* the bass voice was pushed.
triadBassEmitted(p, omit) ==
  ~(omit.root /\ OrElse(p.slashBass, rootPc(p)) = rootPc(p))

triadTmp(p, centerOctave, omit) ==
  LET r       == rootPc(p)
      bassPc  == OrElse(p.slashBass, r)
      bassOct == Max2(1, centerOctave - 2)
      bass    == midiFrom(bassPc, bassOct)
      tmp0    == PushIf(triadBassEmitted(p, omit), bass)
      cursor0 == IF tmp0 # <<>> THEN tmp0[Len(tmp0)] + 2 ELSE bass - 6
      m3      == nearestAbove(OrElse(thirdPc(p), r), cursor0, centerOctave - 1)
      tmp1    == tmp0 \o PushIf(omitOk("third", omit), m3)
      cursor1 == IF omitOk("third", omit) THEN m3 + 2 ELSE cursor0
      m5      == nearestAbove(OrElse(fifthPc(p), r), cursor1, centerOctave - 1)
      tmp2    == tmp1 \o PushIf(omitOk("fifth", omit), m5)
      cursor2 == IF omitOk("fifth", omit) THEN m5 + 2 ELSE cursor1
      topR    == nearestAbove(r, cursor2, centerOctave)
  IN tmp2 \o PushIf(omitOk("root", omit), topR)

\* The pitch classes each no-bass preset stacks, after the omit flags and the
\* fallback substitutions.
presetPcs(p, preset, omit) ==
  LET r   == rootPc(p)
      t3  == OrElse(thirdPc(p), r)
      t5  == OrElse(fifthPc(p), r)
      t7  == OrElse(seventhPc(p), t5)
      t9  == OrElse(ninthPc(p), t5)
      t13 == OrElse(thirteenthPc(p), t5)
  IN IF preset \in DOMAIN DropPresetKind
     THEN PushIf(omitOk("root", omit), r) \o PushIf(omitOk("third", omit), t3)
          \o PushIf(omitOk("fifth", omit), t5) \o PushIf(omitOk("seventh", omit), t7)
     ELSE IF preset = "SHELL_R37_NO_BASS"
     THEN PushIf(omitOk("root", omit), r) \o PushIf(omitOk("third", omit), t3)
          \o PushIf(omitOk("seventh", omit), t7) \o <<t9>>
     ELSE IF preset = "GUIDE_379_NO_BASS"
     THEN PushIf(omitOk("third", omit), t3) \o PushIf(omitOk("seventh", omit), t7)
          \o <<t9>> \o PushIf(omitOk("root", omit), r)
     ELSE PushIf(omitOk("third", omit), t3) \o PushIf(omitOk("seventh", omit), t7)
          \o <<t9>> \o <<t13>>

\* The midis of the preset's branch, before the empty-list fallback.
presetMidis(p, centerOctave, preset, omit) ==
  LET r == rootPc(p)
  IN IF preset = "PAD_TRIAD_BASS_35R"
     THEN clampLowMud(triadTmp(p, centerOctave, omit), TriadFloor)
     ELSE IF preset \in DOMAIN DropPresetKind
     THEN clampLowMud(
            applyDrop(buildClosedFromPcs(r, presetPcs(p, preset, omit), centerOctave),
                      DropPresetKind[preset]),
            DropFloor)
     ELSE LET min    == midiFrom(r, Max2(1, centerOctave - 1)) - 1
              placed == placeLoop(presetPcs(p, preset, omit), min, centerOctave)
          IN clampLowMud(placed,
                         IF preset = "SHELL_R37_NO_BASS" THEN ShellFloor
                         ELSE IF preset = "GUIDE_379_NO_BASS" THEN GuideFloor
                         ELSE RootlessFloor)

\* Tone.Frequency(m, "midi").toNote(): pitch-class number and octave.
toNote(m) == [pc |-> m % 12, oct |-> (m \div 12) - 1]

fallbackMidis_None(p, centerOctave) == <<>>

fallbackMidis(p, centerOctave) ==
  <<midiFrom(OrElse(p.slashBass, rootPc(p)), Max2(1, centerOctave - 1))>>

buildPadVoicing(chordSymbol, centerOctave, preset, transposeShift, omit) ==
  LET parsed == parseChordSymbol(chordSymbol)
  IN IF parsed = None THEN None
     ELSE LET p      == Val(parsed)
              placed == presetMidis(p, centerOctave, preset, omit)
              midis0 == IF placed = <<>> THEN fallbackMidis(p, centerOctave) ELSE placed
              midis  == applyShift(midis0, transposeShift)
          IN Some([chordSymbol |-> chordSymbol,
                   preset |-> preset,
                   midis |-> midis,
                   notes |-> [i \in DOMAIN midis |-> toNote(midis[i])]])

\* ------------------------------------------------------------------
\* The pad model of one pad (part_000 400-433)
\* ------------------------------------------------------------------

\* Center registers 1..MaxOctave (the page's slider offers 2..6) and
\* transposition shifts -MaxShift..MaxShift.
MaxOctave == 5
MaxShift  == 1

Sym(root, type, slash) == [root |-> Some(root), type |-> type, slash |-> slash]

VoicingRoots ==
  {Pc("C", <<>>), Pc("D", <<"b">>), Pc("C", <<"b">>), Pc("B", <<"#">>)}
VoicingTypes == {TypeMajor, TypeM7, TypeFifth, Type13s11, TypeUnknown}
VoicingSlashes == {None, Some(Pc("g", <<>>)), Some(Pc("C", <<>>))}

VoicingSymbols ==
  {Sym(r, t, sl) : r \in VoicingRoots, t \in VoicingTypes, sl \in VoicingSlashes}

InitVoicing ==
  /\ padChord \in VoicingSymbols
  /\ padOctave \in 1..MaxOctave
  /\ padPreset \in PresetIds
  /\ padShift \in (-MaxShift)..MaxShift
  /\ padOmit \in OmitFlags
  /\ padModel = Pending

\* padModels: the voicing of the pad is computed from the current settings.
BuildPad ==
  /\ padModel = Pending
  /\ padModel' = Done(buildPadVoicing(padChord, padOctave, padPreset,
                                     padShift, padOmit))
  /\ UNCHANGED <<padChord, padOctave, padPreset, padShift, padOmit,
                 othersVoicing>>

NextVoicing == BuildPad

IdleVoicing ==
  /\ padChord = Sym(Pc("C", <<>>), TypeMajor, None)
  /\ padOctave = 5
  /\ padPreset = "PAD_TRIAD_BASS_35R"
  /\ padShift = 0
  /\ padOmit = NoOmit
  /\ padModel = Pending

Built == IsDone(padModel) /\ Val(padModel) # None
Midis == Val(Val(padModel)).midis
AllOmitted == [root |-> TRUE, third |-> TRUE, fifth |-> TRUE, seventh |-> TRUE]

\* C1: for every chord symbol the parser accepts, every preset, center
\* register, transpose shift and combination of the four omit flags,
\* buildPadVoicing returns a voicing whose pitch list is non-empty.
C1_NonEmptyVoicing ==
  IsDone(padModel) =>
    IF parseChordSymbol(padChord) = None
    THEN Val(padModel) = None
    ELSE Val(padModel) # None /\ Len(Midis) >= 1

\* C1 witness: all four flags set on a drop preset, where every voice is
\* omitted and the single fallback pitch is returned.
C1_Witness ==
  /\ Built
  /\ padOmit = AllOmitted
  /\ padPreset = "DROP24_1357_NO_BASS"
  /\ presetMidis(Val(parseChordSymbol(padChord)), padOctave, padPreset, padOmit) = <<>>
  /\ Len(Midis) = 1

\* C2: the pitch list built with a shift equals, position by position, the
\* pitch list built with shift 0 with the shift added to every pitch.
C2_TransposeLinear ==
  Built =>
    LET base == Val(buildPadVoicing(padChord, padOctave, padPreset, 0, padOmit)).midis
    IN /\ Len(Midis) = Len(base)
       /\ \A i \in DOMAIN base : Midis[i] = base[i] + padShift

\* C2 witness: a four-voice result built with a negative shift.
C2_Witness ==
  /\ Built
  /\ padShift = -1
  /\ Len(Midis) = 4

\* C4: in the triad-with-bass preset, whenever the bass voice is emitted, it
\* is the lowest, index-0 pitch of the result and it stays at the pitch it was
\* placed at (slash bass or root, two registers below center, never below
\* register 1): crowding resolution moves only voices above it.
C4_BassAnchored ==
  (Built /\ padPreset = "PAD_TRIAD_BASS_35R"
         /\ triadBassEmitted(Val(parseChordSymbol(padChord)), padOmit)) =>
    LET p    == Val(parseChordSymbol(padChord))
        bass == midiFrom(OrElse(p.slashBass, p.tonic), Max2(1, padOctave - 2))
    IN /\ Midis[1] = bass + padShift
       /\ \A i \in DOMAIN Midis : Midis[1] <= Midis[i]
       /\ Count(Midis, bass + padShift) = 1

\* C4 witness: a triad-with-bass result whose upper voices were raised by
\* crowding resolution while the bass was emitted.
C4_Witness ==
  /\ Built
  /\ padPreset = "PAD_TRIAD_BASS_35R"
  /\ triadBassEmitted(Val(parseChordSymbol(padChord)), padOmit)
  /\ Len(Midis) = 4
  /\ LET tmp == triadTmp(Val(parseChordSymbol(padChord)), padOctave, padOmit)
     IN /\ Midis[1] = tmp[1] + padShift
        /\ Midis[2] >= tmp[2] + padShift + 12

\* ------------------------------------------------------------------
\* Crowding resolution on its own (voicing.ts 557-567)
\* ------------------------------------------------------------------

\* Pitch lists of length 0..MaxMud, in any order and with repeats, against
\* the four floors the presets pass.
MaxMud == 4
MudPitches == {40, 48, 52, 55, 60, 67}
MudFloors == {TriadFloor, DropFloor, ShellFloor, RootlessFloor}

InitMud ==
  /\ mudIn \in SeqsUpTo(MudPitches, MaxMud)
  /\ mudFloor \in MudFloors
  /\ mudOut = Pending

ClampLowMud ==
  /\ mudOut = Pending
  /\ mudOut' = Done(clampLowMud(mudIn, mudFloor))
  /\ UNCHANGED <<mudIn, mudFloor, othersMud>>

NextMud == ClampLowMud

IdleMud ==
  /\ mudIn = <<>>
  /\ mudFloor = 55
  /\ mudOut = Pending

TopMin(q) == SeqMin(LastN(SortNum(q), 3))
ShiftUpper(q, d) == [i \in DOMAIN q |-> IF i = 1 THEN q[i] ELSE q[i] + d]
MudOctaves == 0..4

\* C19: for every pitch list of length >= 2 and every floor, after
\* clampLowMud the minimum of the three highest result pitches is at or
\* above the floor, the upward shift applied (to every pitch except the
\* lowest) is the smallest multiple of 12 that achieves this, and no pitch
\* is moved when the three highest already clear the floor.
C19_ClearsFloor ==
  (IsDone(mudOut) /\ Len(mudIn) >= 2) =>
    LET sorted == SortNum(mudIn)
        out    == Val(mudOut)
    IN /\ TopMin(out) >= mudFloor
       /\ \E k \in MudOctaves :
            /\ out = ShiftUpper(sorted, 12 * k)
            /\ \A j \in 0..(k - 1) : TopMin(ShiftUpper(sorted, 12 * j)) < mudFloor
       /\ TopMin(mudIn) >= mudFloor => out = sorted

\* ------------------------------------------------------------------
\* Voice stacking on its own (voicing.ts 576-588, 708-725)
\* ------------------------------------------------------------------

\* Pitch-class lists of length 0..MaxVoices above an anchor pitch class.
\* "closed" is buildClosedFromPcs (anchor register centerOctave - 1),
\* "shell" the loop of the shell, guide and rootless presets (floor from
\* centerOctave - 1, anchor register centerOctave).
MaxVoices == 4
StackPcs == {Pc("C", <<>>), Pc("D", <<"b">>), Pc("E", <<>>), Pc("B", <<>>)}
StackAnchors == {Pc("C", <<>>), Pc("B", <<>>)}
StackOctaves == {1, 3, 4}
StackForms == {"closed", "shell"}

InitStack ==
  /\ stackAnchor \in StackAnchors
  /\ stackPcs \in SeqsUpTo(StackPcs, MaxVoices)
  /\ stackOctave \in StackOctaves
  /\ stackForm \in StackForms
  /\ stacked = Pending

BuildClosed ==
  /\ stackForm = "closed"
  /\ stacked = Pending
  /\ stacked' = Done(buildClosedFromPcs(stackAnchor, stackPcs, stackOctave))
  /\ UNCHANGED <<stackAnchor, stackPcs, stackOctave, stackForm, othersStack>>

PlaceShell ==
  /\ stackForm = "shell"
  /\ stacked = Pending
  /\ stacked' = Done(placeLoop(stackPcs,
                               midiFrom(stackAnchor, Max2(1, stackOctave - 1)) - 1,
                               stackOctave))
  /\ UNCHANGED <<stackAnchor, stackPcs, stackOctave, stackForm, othersStack>>

NextStack == BuildClosed \/ PlaceShell

IdleStack ==
  /\ stackAnchor = Pc("C", <<>>)
  /\ stackPcs = <<>>
  /\ stackOctave = 4
  /\ stackForm = "closed"
  /\ stacked = Pending

AnchorRegister ==
  IF stackForm = "closed" THEN Max2(1, stackOctave - 1) ELSE stackOctave

\* C20: in the no-bass presets each voice after the first is placed at the
\* lowest octave instance of its pitch class, at or above the anchor
\* register, that is at least 1 semitone above the previously placed voice;
\* a tone whose pitch class is exactly one semitone above the previous voice
\* is placed 1 semitone above it, not 13.
C20_OneSemitoneStacking ==
  IsDone(stacked) =>
    LET out == Val(stacked)
    IN /\ Len(out) = Len(stackPcs)
       /\ \A k \in 2..Len(out) :
            out[k] = RaiseTo(midiFrom(stackPcs[k], AnchorRegister), out[k - 1] + 1)

\* ------------------------------------------------------------------
\* Performance events (src/unnamed/part_001)
\* ------------------------------------------------------------------

\* A JS number is modelled exactly, as a fraction num/den in lowest terms.
RECURSIVE GCD(_, _)
GCD(a, b) == IF b = 0 THEN a ELSE GCD(b, a % b)

Rat(n, d) == LET g == GCD(Abs(n), d) IN [num |-> n \div g, den |-> d \div g]
Whole(n) == Rat(n, 1)
RatAdd(a, b) == Rat(a.num * b.den + b.num * a.den, a.den * b.den)
RatSub(a, b) == Rat(a.num * b.den - b.num * a.den, a.den * b.den)
RatMul(a, b) == Rat(a.num * b.num, a.den * b.den)
RatDivInt(a, k) == Rat(a.num, a.den * k)
RatLe(a, b) == a.num * b.den <= b.num * a.den
RatMax(a, b) == IF RatLe(b, a) THEN a ELSE b
RatMin(a, b) == IF RatLe(a, b) THEN a ELSE b

\* clamp without its lower bound.
clamp_UpperOnly(x, lo, hi) == RatMin(hi, x)

clamp(x, lo, hi) == RatMax(lo, RatMin(hi, x))
\* clamp01 that lets its argument through.
clamp01_Unclamped(x) == x

clamp01(x) == clamp(x, Whole(0), Whole(1))

\* Math.random() yields u in [0, 1); u is the outcome drawn.
RandomDraws == {Rat(0, 1), Rat(3, 4)}
randBetween(min, max, u) == RatAdd(min, RatMul(u, RatSub(max, min)))

Swap(arr, i, j) == [arr EXCEPT ![i] = arr[j], ![j] = arr[i]]

\* js[i] is the outcome of Math.floor(Math.random() * (i + 1)) at loop
\* index i (0-based), hence in 0..i.
ShuffleDraws(n) ==
  {js \in [1..(n - 1) -> 0..(n - 1)] : \A i \in 1..(n - 1) : js[i] <= i}

RECURSIVE shuffleFrom(_, _, _)
shuffleFrom(arr, i, js) ==
  IF i <= 0 THEN arr
  ELSE shuffleFrom(Swap(arr, i + 1, js[i] + 1), i - 1, js)

shuffleInPlace_NoSwapBack(arr, js) ==
  IF Len(arr) < 2 THEN arr
  ELSE [arr EXCEPT ![Len(arr)] = arr[js[Len(arr) - 1] + 1]]

shuffleInPlace(arr, js) == shuffleFrom(arr, Len(arr) - 1, js)

RECURSIVE insertByMidi(_, _)
insertByMidi(s, it) ==
  IF s = <<>> THEN <<it>>
  ELSE IF it.midi < Head(s).midi THEN <<it>> \o s
       ELSE <<Head(s)>> \o insertByMidi(Tail(s), it)

\* [...items].sort((a, b) => a.midi - b.midi): a stable sort.
RECURSIVE sortByMidi(_)
sortByMidi(items) ==
  IF items = <<>> THEN <<>>
  ELSE insertByMidi(sortByMidi(SubSeq(items, 1, Len(items) - 1)),
                    items[Len(items)])

Reverse(s) == [i \in 1..Len(s) |-> s[Len(s) + 1 - i]]

orderForChord_InputOrder(items, dir, js) == items

orderForChord(items, dir, js) ==
  LET ordered == sortByMidi(items)
  IN IF dir = "down" THEN Reverse(ordered)
     ELSE IF dir = "random" THEN shuffleInPlace(ordered, js)
     ELSE ordered

orderForArp_AlwaysSorted(items, pat, js) == sortByMidi(items)

orderForArp(items, pat, js) ==
  IF pat = "1357" THEN items
  ELSE LET ordered == sortByMidi(items)
       IN IF pat = "down" THEN Reverse(ordered)
          ELSE IF pat = "random" THEN shuffleInPlace(ordered, js)
          ELSE ordered

\* A settings field is None when it is missing or (numbers) not finite.
normalizePerf(perf) ==
  [strumMs          |-> RatMax(Whole(0), OrElse(perf.strumMs, Whole(0))),
   direction        |-> OrElse(perf.direction, "up"),
   playMode         |-> OrElse(perf.playMode, "chord"),
   arpPattern       |-> OrElse(perf.arpPattern, "up"),
   arpStepMs        |-> RatMax(Whole(10), OrElse(perf.arpStepMs, Whole(90))),
   arpGate          |-> clamp(OrElse(perf.arpGate, Rat(85, 100)),
                              Rat(1, 10), Whole(1)),
   timingJitterMs   |-> RatMax(Whole(0), OrElse(perf.timingJitterMs, Whole(0))),
   velocityHumanize |-> RatMax(Whole(0), OrElse(perf.velocityHumanize, Whole(0))),
   baseVelocity     |-> clamp(OrElse(perf.baseVelocity, Rat(8, 10)),
                              Rat(5, 100), Whole(1)),
   topBoost         |-> clamp(OrElse(perf.topBoost, Whole(0)),
                              Whole(0), Whole(1))]

\* The delay schedule of n notes, 0-based position i at index i + 1.
delaySchedule(p, n) ==
  IF p.playMode = "arp"
  THEN [i \in 1..n |-> RatMul(Whole(i - 1), p.arpStepMs)]
  ELSE LET step == IF n <= 1 THEN Whole(0) ELSE RatDivInt(p.strumMs, n - 1)
       IN [i \in 1..n |-> RatMul(Whole(i - 1), step)]

\* The body of buildNoteEvents after its guard. rnd holds the outcomes of
\* the Math.random() calls: rnd.shuffle for the shuffle, rnd.jitter[k] and
\* rnd.velocity[k] for the k-th event.
noteEvents(notes, midis, perf, oneShotDurSec, rnd) ==
    LET p       == normalizePerf(perf)
        oneShot == clamp(oneShotDurSec, Rat(5, 100), Whole(10))
        topMidi == SeqMax(midis)
        items   == [i \in 1..Len(notes) |->
                      [note  |-> notes[i],
                       midi  |-> midis[i],
                       isTop |-> midis[i] = topMidi,
                       idx   |-> i - 1]]
        playOrder == IF p.playMode = "arp"
                     THEN orderForArp(items, p.arpPattern, rnd.shuffle)
                     ELSE orderForChord(items, p.direction, rnd.shuffle)
        n       == Len(playOrder)
        delays  == delaySchedule(p, n)
        arpStepSec == IF p.playMode = "arp"
                      THEN RatDivInt(p.arpStepMs, 1000) ELSE Whole(0)
        arpDurSec  == RatMin(oneShot,
                             RatMax(Rat(5, 100), RatMul(arpStepSec, p.arpGate)))
        event(k) ==
          LET it == playOrder[k]
              d0 == delays[k]
              d1 == IF p.timingJitterMs.num > 0
                    THEN RatAdd(d0, randBetween(RatSub(Whole(0), p.timingJitterMs),
                                                p.timingJitterMs, rnd.jitter[k]))
                    ELSE d0
              v0 == p.baseVelocity
              v1 == IF p.velocityHumanize.num > 0
                    THEN RatMul(v0, RatAdd(Whole(1),
                           randBetween(RatSub(Whole(0), p.velocityHumanize),
                                       p.velocityHumanize, rnd.velocity[k])))
                    ELSE v0
              v2 == IF it.isTop /\ p.topBoost.num > 0
                    THEN RatMul(v1, RatAdd(Whole(1), p.topBoost))
                    ELSE v1
          IN [note     |-> it.note,
              midi     |-> it.midi,
              isTop    |-> it.isTop,
              delayMs  |-> RatMax(Whole(0), d1),
              velocity |-> clamp01(v2),
              durSec   |-> IF p.playMode = "arp" THEN arpDurSec ELSE oneShot]
    IN [k \in 1..n |-> event(k)]

\* buildNoteEvents whose guard only asks that every note has a pitch.
buildNoteEvents_ShortNotes(notes, midis, perf, oneShotDurSec, rnd) ==
  IF Len(notes) = 0 \/ Len(notes) > Len(midis) THEN <<>>
  ELSE noteEvents(notes, midis, perf, oneShotDurSec, rnd)

buildNoteEvents(notes, midis, perf, oneShotDurSec, rnd) ==
  IF Len(notes) = 0 \/ Len(notes) # Len(midis) THEN <<>>
  ELSE noteEvents(notes, midis, perf, oneShotDurSec, rnd)

\* Inputs: up to MaxNotes pitches, in any order and with repetitions.
MaxNotes == 4
PerfPitches == {60, 64, 67}
NoteNames == <<"n1", "n2", "n3", "n4", "n5", "n6">>

\* The page's initial settings (part_000 312-323).
DefaultPerf ==
  [playMode         |-> Some("chord"),
   strumMs          |-> Some(Whole(20)),
   direction        |-> Some("up"),
   arpPattern       |-> Some("up"),
   arpStepMs        |-> Some(Whole(90)),
   arpGate          |-> Some(Rat(85, 100)),
   timingJitterMs   |-> Some(Whole(2)),
   velocityHumanize |-> Some(Rat(6, 100)),
   baseVelocity     |-> Some(Rat(75, 100)),
   topBoost         |-> Some(Rat(18, 100))]

\* The same with the two humanize sliders at 0.
SteadyPerf ==
  [DefaultPerf EXCEPT !.timingJitterMs = Some(Whole(0)),
                      !.velocityHumanize = Some(Whole(0))]
SteadyArp == [SteadyPerf EXCEPT !.playMode = Some("arp")]

ChordPerfs ==
  {[SteadyPerf EXCEPT !.direction = Some(d), !.strumMs = Some(Whole(s))] :
     d \in {"up", "down"}, s \in {0, 20, 30}}
  \cup {[SteadyPerf EXCEPT !.direction = Some("random"),
                           !.strumMs = Some(Whole(30))]}
  \cup
  {[SteadyPerf EXCEPT !.direction = Some(d), !.strumMs = Some(Whole(s)),
                      !.timingJitterMs = Some(Whole(4))] :
     d \in {"up", "down"}, s \in {0, 30}}

ArpPerfs ==
  {[SteadyArp EXCEPT !.arpPattern = Some(a), !.arpStepMs = Some(Whole(s))] :
     a \in {"up", "down", "1357"}, s \in {30, 90}}
  \cup {[SteadyArp EXCEPT !.arpPattern = Some("random")]}
  \cup
  {[SteadyArp EXCEPT !.arpPattern = Some(a),
                     !.timingJitterMs = Some(Whole(4))] :
     a \in {"up", "1357"}}

HumanizePerfs ==
  {[SteadyPerf EXCEPT !.playMode = Some(m), !.velocityHumanize = Some(h),
                      !.topBoost = Some(t), !.baseVelocity = Some(b)] :
     m \in {"chord", "arp"}, h \in {Whole(0), Rat(3, 10)},
     t \in {Whole(0), Rat(1, 2)}, b \in {Rat(3, 4), Whole(1)}}

\* Settings no slider produces: missing or non-finite fields, values out
\* of range, strings outside the enumerations.
MalformedPerfs ==
  {[SteadyPerf EXCEPT !.strumMs = x] : x \in {None, Some(Whole(-30))}}
  \cup {[SteadyArp EXCEPT !.arpStepMs = x] : x \in {None, Some(Whole(5))}}
  \cup {[SteadyArp EXCEPT !.arpGate = x] :
          x \in {None, Some(Whole(0)), Some(Whole(2))}}
  \cup {[SteadyPerf EXCEPT !.timingJitterMs = x] :
          x \in {None, Some(Whole(-3))}}
  \cup {[SteadyPerf EXCEPT !.velocityHumanize = x] :
          x \in {None, Some(Rat(-1, 10))}}
  \cup {[SteadyPerf EXCEPT !.baseVelocity = x] :
          x \in {None, Some(Whole(0)), Some(Whole(3))}}
  \cup {[SteadyPerf EXCEPT !.topBoost = x] :
          x \in {None, Some(Whole(-1)), Some(Whole(2))}}
  \cup {[SteadyPerf EXCEPT !.direction = x] : x \in {None, Some("sideways")}}
  \cup {[SteadyPerf EXCEPT !.playMode = x] : x \in {None, Some("arpeggio")}}
  \cup {[SteadyArp EXCEPT !.arpPattern = x] : x \in {None, Some("7531")}}

\* Nominal durations: Hold (0.9), one-shot chord (0.85), single note
\* (0.35), and two values outside [0.05, 10].
OneShotDurs == {Rat(9, 10), Rat(85, 100), Rat(35, 100), Rat(1, 100), Whole(12)}

\* Settings under which both clamps of an event act: every delay is 0
\* before the jitter, and the boosted top velocity exceeds 1.
ClampedPerf ==
  [SteadyPerf EXCEPT !.strumMs = Some(Whole(0)),
                     !.timingJitterMs = Some(Whole(4)),
                     !.baseVelocity = Some(Whole(1)),
                     !.topBoost = Some(Rat(1, 2))]

PerfCalls ==
  {[perf |-> s, dur |-> Rat(9, 10)] :
     s \in ChordPerfs \cup ArpPerfs \cup HumanizePerfs \cup MalformedPerfs
             \cup {ClampedPerf}}
  \cup {[perf |-> s, dur |-> d] : s \in {SteadyPerf, SteadyArp}, d \in OneShotDurs}

\* The calls that are also made with one note name more than pitches.
LongNotesCalls ==
  {[perf |-> s, dur |-> Rat(9, 10)] : s \in {SteadyPerf, SteadyArp}}

InitPerf ==
  /\ evMidis \in SeqsUpTo(PerfPitches, MaxNotes)
  /\ \E c \in PerfCalls :
       /\ evPerf = c.perf
       /\ evDur = c.dur
       /\ \E k \in {Len(evMidis) - 1, Len(evMidis), Len(evMidis) + 1} :
            /\ k >= 0
            /\ k > Len(evMidis) => c \in LongNotesCalls
            /\ evNotes = SubSeq(NoteNames, 1, k)
  /\ events = Pending

\* One call of buildNoteEvents; the outcomes of its Math.random() calls
\* are drawn here (none where the code makes no call).
BuildEvents ==
  /\ events = Pending
  /\ LET p == normalizePerf(evPerf)
         n == IF Len(evNotes) = Len(evMidis) THEN Len(evNotes) ELSE 0
         shuffles == IF \/ p.playMode = "arp" /\ p.arpPattern = "random"
                        \/ p.playMode # "arp" /\ p.direction = "random"
                     THEN n ELSE 0
         jitters  == IF p.timingJitterMs.num > 0 THEN n ELSE 0
         humans   == IF p.velocityHumanize.num > 0 THEN n ELSE 0
     IN \E js \in ShuffleDraws(shuffles),
           jd \in [1..jitters -> RandomDraws],
           vd \in [1..humans -> RandomDraws] :
          events' = Done(buildNoteEvents(evNotes, evMidis, evPerf, evDur,
                           [shuffle |-> js, jitter |-> jd, velocity |-> vd]))
  /\ UNCHANGED <<evNotes, evMidis, evPerf, evDur, othersPerf>>

NextPerf == BuildEvents

IdlePerf ==
  /\ evNotes = <<>>
  /\ evMidis = <<>>
  /\ evPerf = DefaultPerf
  /\ evDur = Rat(9, 10)
  /\ events = Pending

Scheduled == IsDone(events) /\ Len(evNotes) > 0 /\ Len(evNotes) = Len(evMidis)
Events == Val(events)
Delays == [i \in DOMAIN Events |-> Events[i].delayMs]
InputPairs == [i \in DOMAIN evNotes |-> <<evNotes[i], evMidis[i]>>]
EventPairs == [i \in DOMAIN Events |-> <<Events[i].note, Events[i].midi>>]

\* C6: in chord mode with zero timing jitter and direction "up", the
\* returned events are the input notes in ascending pitch order and the
\* i-th event (0-based, n events) has delayMs = i * strumMs / (n - 1), and
\* 0 when n <= 1, strumMs being the normalized strum span; n = 4 and
\* strumMs = 30 give the delays 0, 10, 20, 30.
C6_ChordUpDelays ==
  LET p == normalizePerf(evPerf)
  IN (/\ Scheduled
      /\ p.playMode = "chord"
      /\ p.direction = "up"
      /\ p.timingJitterMs = Whole(0)) =>
       LET n == Len(Events)
       IN /\ SameBag(EventPairs, InputPairs)
          /\ \A i \in 1..(n - 1) : Events[i].midi <= Events[i + 1].midi
          /\ \A i \in 1..n :
               Events[i].delayMs =
                 IF n <= 1 THEN Whole(0)
                 ELSE Rat((i - 1) * p.strumMs.num, (n - 1) * p.strumMs.den)
          /\ (n = 4 /\ p.strumMs = Whole(30)) =>
               Delays = <<Whole(0), Whole(10), Whole(20), Whole(30)>>

C6_Witness ==
  /\ Scheduled
  /\ normalizePerf(evPerf).playMode = "chord"
  /\ normalizePerf(evPerf).direction = "up"
  /\ normalizePerf(evPerf).timingJitterMs = Whole(0)
  /\ normalizePerf(evPerf).strumMs = Whole(30)
  /\ evMidis = <<67, 60, 64, 60>>
  /\ EventPairs = << <<"n2", 60>>, <<"n4", 60>>, <<"n3", 64>>, <<"n1", 67>> >>
  /\ Delays = <<Whole(0), Whole(10), Whole(20), Whole(30)>>

C13_GuardOrOnePerNote ==
  IsDone(events) =>
    IF Len(evNotes) = 0 \/ Len(evNotes) # Len(evMidis)
    THEN Events = <<>>
    ELSE /\ Len(Events) = Len(evNotes)
         /\ SameBag(EventPairs, InputPairs)

\* A call with three pitches and two note names has returned no event.
C13_Witness ==
  /\ IsDone(events)
  /\ Len(evNotes) = 2
  /\ Len(evMidis) = 3
  /\ Events = <<>>

\* C16: every returned event has delayMs >= 0 and 0 <= velocity <= 1,
\* for every input, every settings object (malformed ones included) and
\* every outcome of the random draws.
C16_DelayAndVelocityRange ==
  IsDone(events) =>
    \A i \in DOMAIN Events :
      /\ RatLe(Whole(0), Events[i].delayMs)
      /\ RatLe(Whole(0), Events[i].velocity)
      /\ RatLe(Events[i].velocity, Whole(1))

\* Under ClampedPerf one event drew a negative jitter and has delay 0,
\* another drew a positive one, and the boosted top velocity (1.5) is 1.
C16_Witness ==
  /\ Scheduled
  /\ evPerf = ClampedPerf
  /\ \E i \in DOMAIN Events : Events[i].delayMs = Whole(0)
  /\ \E i \in DOMAIN Events : Events[i].delayMs = Whole(2)
  /\ \E i \in DOMAIN Events : Events[i].isTop /\ Events[i].velocity = Whole(1)

\* The first input position that holds the highest pitch.
FirstTop == CHOOSE i \in DOMAIN evMidis :
              /\ evMidis[i] = SeqMax(evMidis)
              /\ \A j \in 1..(i - 1) : evMidis[j] # SeqMax(evMidis)

\* C17: in every non-empty result exactly one event has isTop = TRUE, the
\* event of the first input position that holds the highest pitch; a
\* later note of the same pitch is not flagged, and is not boosted: with
\* no velocity humanize its velocity is the base velocity, while the
\* flagged event has the base velocity times (1 + topBoost), clamped.
C17_FirstTopOnly ==
  Scheduled =>
    LET p == normalizePerf(evPerf)
    IN \A k \in DOMAIN Events :
         /\ Events[k].isTop <=> Events[k].note = evNotes[FirstTop]
         /\ p.velocityHumanize = Whole(0) =>
              Events[k].velocity =
                IF Events[k].note = evNotes[FirstTop]
                THEN clamp01(RatMul(p.baseVelocity, RatAdd(Whole(1), p.topBoost)))
                ELSE p.baseVelocity

\* C18: the events of one call are delay-ordered: delayMs never decreases
\* along the returned sequence, in every play mode, direction and
\* pattern, and for every timing jitter and every outcome of its draws.
C18_DelayOrdered ==
  Scheduled =>
    \A k \in 1..(Len(Events) - 1) :
      RatLe(Events[k].delayMs, Events[k + 1].delayMs)

\* The enumerations of the settings types (part_001 1-3).
PlayModes == {"chord", "arp"}
StrumDirections == {"up", "down", "random"}
ArpPatterns == {"up", "down", "random", "1357"}

\* The numeric fields of normalized settings are in their ranges.
NumbersInRange(p) ==
  /\ RatLe(Whole(0), p.strumMs)
  /\ RatLe(Whole(0), p.timingJitterMs)
  /\ RatLe(Whole(0), p.velocityHumanize)
  /\ RatLe(Rat(1, 10), p.arpGate) /\ RatLe(p.arpGate, Whole(1))
  /\ RatLe(Rat(5, 100), p.baseVelocity) /\ RatLe(p.baseVelocity, Whole(1))
  /\ RatLe(Whole(0), p.topBoost) /\ RatLe(p.topBoost, Whole(1))

\* C14: the settings normalized by a call of buildNoteEvents, whatever
\* the caller passed (fields missing or not finite, numbers out of range,
\* strings outside the enumerations), have strumMs >= 0,
\* timingJitterMs >= 0, velocityHumanize >= 0, arpGate in [0.1, 1],
\* baseVelocity in [0.05, 1], topBoost in [0, 1], and playMode, direction
\* and arpPattern each a value of its enumeration.
C14_NormalizedSettings ==
  Scheduled =>
    LET p == normalizePerf(evPerf)
    IN /\ NumbersInRange(p)
       /\ p.playMode \in PlayModes
       /\ p.direction \in StrumDirections
       /\ p.arpPattern \in ArpPatterns

\* The nominal duration brought into [0.05, 10] seconds, and the duration
\* of an arpeggio note derived from the normalized step and gate.
NominalDur ==
  IF RatLe(evDur, Rat(1, 20)) THEN Rat(1, 20)
  ELSE IF RatLe(Whole(10), evDur) THEN Whole(10)
  ELSE evDur
ArpDur ==
  LET p       == normalizePerf(evPerf)
      gated   == Rat(p.arpStepMs.num * p.arpGate.num,
                     p.arpStepMs.den * 1000 * p.arpGate.den)
      floored == IF RatLe(gated, Rat(1, 20)) THEN Rat(1, 20) ELSE gated
  IN IF RatLe(NominalDur, floored) THEN NominalDur ELSE floored

\* C25: in arpeggio mode every event's duration equals
\* min(nominal, max(0.05 s, arpStepMs / 1000 * arpGate)), computed on the
\* normalized settings and the nominal duration clamped to [0.05, 10] s, so
\* it never exceeds the clamped nominal duration and is never below 50 ms;
\* in chord mode every event's duration equals the clamped nominal duration.
C25_EventDuration ==
  Scheduled =>
    LET p == normalizePerf(evPerf)
    IN \A k \in DOMAIN Events :
         /\ p.playMode = "arp" =>
              /\ Events[k].durSec = ArpDur
              /\ RatLe(Events[k].durSec, NominalDur)
              /\ RatLe(Rat(1, 20), Events[k].durSec)
         /\ p.playMode = "chord" => Events[k].durSec = NominalDur

\* C25 witness: an arpeggio whose step times gate is under 50 ms (30 ms
\* steps), with the Hold's nominal 0.9 s: every note lasts 50 ms.
C25_Witness ==
  /\ Scheduled
  /\ normalizePerf(evPerf).playMode = "arp"
  /\ normalizePerf(evPerf).arpStepMs = Whole(30)
  /\ evDur = Rat(9, 10)
  /\ Len(Events) = 3
  /\ \A k \in DOMAIN Events : Events[k].durSec = Rat(1, 20)

\* The items buildNoteEvents makes of a built voicing.
VoicingItems ==
  [i \in DOMAIN Midis |->
     [note  |-> Val(Val(padModel)).notes[i],
      midi  |-> Midis[i],
      isTop |-> Midis[i] = SeqMax(Midis),
      idx   |-> i - 1]]

\* C26: the pitch list returned by buildPadVoicing is in non-decreasing
\* pitch order for every preset, chord, center register, shift and omit
\* flags, so arpeggio pattern "1357" applied to a builder result plays the
\* same order as pattern "up".
C26_VoicingAscending ==
  Built =>
    /\ \A i \in 1..(Len(Midis) - 1) : Midis[i] <= Midis[i + 1]
    /\ orderForArp(VoicingItems, "1357", <<>>) = orderForArp(VoicingItems, "up", <<>>)

\* C26 witness: a drop-2 voicing of C m7 whose lowest pitch is the fifth:
\* the list is in pitch order, not in the order root, third, fifth, seventh.
C26_Witness ==
  /\ Built
  /\ padChord = Sym(Pc("C", <<>>), TypeM7, None)
  /\ padPreset = "DROP2_1357_NO_BASS"
  /\ padOmit = NoOmit
  /\ padShift = 0
  /\ Len(Midis) = 4
  /\ Midis[1] % 12 = 7
  /\ Midis[2] % 12 = 0

\* C30: for a non-empty list of note names and as many pitches, the
\* events buildNoteEvents returns are a permutation of the inputs: the
\* (note name, pitch) pairs of the events, counted with multiplicity, are
\* those of the inputs, in every play mode, direction and pattern, for
\* every outcome of the shuffle of "random", and when several inputs have
\* the same pitch.
C30_EventsPermuteInputs ==
  Scheduled => SameBag(EventPairs, InputPairs)

\* C30 witness: a strum in random direction of three notes, two of them
\* on one pitch, that the shuffle has taken out of pitch order.
C30_Witness ==
  /\ Scheduled
  /\ normalizePerf(evPerf).playMode = "chord"
  /\ normalizePerf(evPerf).direction = "random"
  /\ Len(evMidis) = 3
  /\ evMidis[1] = evMidis[2]
  /\ Events[1].midi > Events[2].midi
  /\ EventPairs # InputPairs

\* The pitch classes a preset selects from the parsed chord p, after the
\* omit flags and the substitutions for missing tones; the single bass or
\* root of the fallback when that selection is empty.
SelectedPcs(p, preset, omit) ==
  LET r   == rootPc(p)
      sel == IF preset = "PAD_TRIAD_BASS_35R"
             THEN PushIf(triadBassEmitted(p, omit), OrElse(p.slashBass, r))
                  \o PushIf(omitOk("third", omit), OrElse(thirdPc(p), r))
                  \o PushIf(omitOk("fifth", omit), OrElse(fifthPc(p), r))
                  \o PushIf(omitOk("root", omit), r)
             ELSE presetPcs(p, preset, omit)
  IN IF sel = <<>> THEN <<OrElse(p.slashBass, r)>> ELSE sel

\* C29: placement, drop, crowding resolution and register shifts move
\* voices by whole octaves only: the pitch classes (pitch modulo 12) of
\* buildPadVoicing's result, counted with multiplicity, are those of the
\* tones the preset selected (after the omit flags and the substitutions
\* for missing tones), each raised by transposeShift modulo 12; no
\* selected tone is lost, doubled or turned into another pitch class.
C29_PitchClassesKept ==
  Built =>
    LET sel == SelectedPcs(Val(parseChordSymbol(padChord)), padPreset, padOmit)
    IN SameBag([i \in DOMAIN Midis |-> Midis[i] % 12],
               [i \in DOMAIN sel |-> (pcToSemitone(sel[i]) + padShift) % 12])

\* C29 witness: the drop-2 voicing of a C triad around register 3 raised
\* by a semitone: the seventh is replaced by the fifth, the second voice
\* from the top is dropped an octave, the upper three voices are raised
\* two octaves above the crowding floor, and all four are shifted.
C29_Witness ==
  /\ Built
  /\ padChord = Sym(Pc("C", <<>>), TypeMajor, None)
  /\ padPreset = "DROP2_1357_NO_BASS"
  /\ padOmit = NoOmit
  /\ padOctave = 3
  /\ padShift = 1
  /\ Midis = <<32, 61, 65, 80>>

\* ------------------------------------------------------------------
\* Roman numerals (voicing.ts 781-865)
\* ------------------------------------------------------------------

DEGREE_ROMAN ==
  << <<"I">>, <<"I", "I">>, <<"I", "I", "I">>, <<"I", "V">>,
     <<"V">>, <<"V", "I">>, <<"V", "I", "I">> >>

degreeIntervals_NoUpperDegrees(mode) ==
  IF mode = "major" THEN <<0, 2, 4, 5, 7, 7, 7>> ELSE <<0, 2, 3, 5, 7, 7, 7>>

degreeIntervals(mode) ==
  IF mode = "major" THEN <<0, 2, 4, 5, 7, 9, 11>> ELSE <<0, 2, 3, 5, 7, 8, 10>>

accidentalPrefix(delta) ==
  CASE delta = -2 -> <<"b", "b">>
    [] delta = -1 -> <<"b">>
    [] delta = 1  -> <<"#">>
    [] delta = 2  -> <<"#", "#">>
    [] OTHER      -> <<>>

isSeventhChord(symbol) == Includes(LowerStr(symbol), <<"7">>)

isMaj7(symbol) ==
  LET s == LowerStr(symbol)
  IN \/ Includes(s, <<"m", "a", "j", "7">>)
     \/ Includes(s, <<"m", "a", "7">>)
     \/ Includes(s, <<"Δ", "7">>)

UpperStr(str) == [i \in DOMAIN str |-> toUpperCase(str[i])]

qualityToRomanCase(q, base, symbol) ==
  LET s == LowerStr(symbol)
      isHalfDim == Includes(s, <<"m", "7", "b", "5">>) \/ Includes(s, <<"ø">>)
      isDim == q = "diminished" \/ Includes(s, <<"d", "i", "m">>)
               \/ Includes(s, <<"o">>)
      isAug == q = "augmented" \/ Includes(s, <<"+">>)
               \/ Includes(s, <<"a", "u", "g">>)
  IN IF isHalfDim THEN LowerStr(base) \o <<"ø">>
     ELSE IF isDim THEN LowerStr(base) \o <<"°">>
     ELSE IF isAug THEN UpperStr(base) \o <<"+">>
     ELSE IF q = "minor" THEN LowerStr(base)
     ELSE UpperStr(base)

\* The loop over the degrees from index i (0-based) on; best is
\* (bestIdx, bestDelta, bestScore).
\* The signed delta of one degree: ((diff - base + 6) % 12) - 6, with the
\* remainder of a negative dividend negative.
deltaSigned(diff, base) == JsMod(diff - base + 6, 12) - 6

RECURSIVE degreeScan(_, _, _, _)
degreeScan(diff, baseInts, i, best) ==
  IF i >= Len(baseInts) THEN best
  ELSE LET base  == baseInts[i + 1]
           d     == deltaSigned(diff, base)
           score == Abs(d)
       IN degreeScan(diff, baseInts, i + 1,
                     IF score < best.score
                     THEN [idx |-> i, delta |-> d, score |-> score]
                     ELSE best)

bestDegree_FirstOnly(diff, baseInts) ==
  LET d == JsMod(diff - baseInts[1] + 6, 12) - 6
  IN [idx |-> 0, delta |-> d, score |-> Abs(d)]

bestDegree(diff, baseInts) ==
  degreeScan(diff, baseInts, 0, [idx |-> 0, delta |-> 0, score |-> 999])

\* The empty character sequence is the empty string.
romanizeChord(chordSymbol, key) ==
  LET parsed == parseChordSymbol(chordSymbol)
  IN IF parsed = None THEN <<>>
     ELSE
       LET p         == Val(parsed)
           keySemi   == pcToSemitone(key.tonic)
           chordSemi == pcToSemitone(p.tonic)
           diff      == JsMod(chordSemi - keySemi + 12, 12)
           best      == bestDegree(diff, degreeIntervals(key.mode))
           clipped   == Max2(-2, Min2(2, best.delta))
           acc       == accidentalPrefix(clipped)
           baseRoman == DEGREE_ROMAN[best.idx + 1]
           romanWithQuality ==
             qualityToRomanCase(p.qualityGuess, baseRoman, CoreStr(p.core))
           ext == IF isMaj7(CoreStr(p.core)) THEN <<"Δ", "7">>
                  ELSE IF isSeventhChord(CoreStr(p.core)) THEN <<"7">>
                  ELSE <<>>
       IN acc \o romanWithQuality \o ext

KeyModes == {"major", "minor"}
KeySigs == {[tonic |-> t, mode |-> m] : t \in KEY_ROOTS, m \in KeyModes}

\* Chord roots: every letter, natural, sharp or flat, and two roots with
\* a double accidental.
RomanRoots ==
  {Pc(l, a) : l \in UpperLetters, a \in {<<>>, <<"#">>, <<"b">>}}
  \cup {Pc("F", <<"#", "#">>), Pc("B", <<"b", "b">>)}
RomanTypes ==
  {TypeMajor, TypeM7, TypeMaj7, TypeDom7, TypeM7b5, TypeDim, TypeAug,
   TypeMa7, TypeCapMaj7, TypeMinMajDelta, TypeUnknown}
RomanSymbols ==
  {Sym(r, t, sl) : r \in RomanRoots, t \in RomanTypes,
                   sl \in {None, Some(Pc("G", <<>>))}}

InitRoman ==
  /\ rnChord \in RomanSymbols
  /\ analysisKey \in KeySigs
  /\ roman = Pending

\* padModels / romanProgression: the label is computed for the analysis key.
Romanize ==
  /\ roman = Pending
  /\ roman' = Done(romanizeChord(rnChord, analysisKey))
  /\ UNCHANGED <<rnChord, analysisKey, othersRoman>>

\* The user picks another analysis tonic; the label is recomputed.
SetAnalysisRoot ==
  /\ IsDone(roman)
  /\ \E t \in KEY_ROOTS :
       LET k == [analysisKey EXCEPT !.tonic = t]
       IN /\ analysisKey' = k
          /\ roman' = Done(romanizeChord(rnChord, k))
  /\ UNCHANGED <<rnChord, othersRoman>>

\* The user picks the other analysis mode; the label is recomputed.
SetAnalysisMode ==
  /\ IsDone(roman)
  /\ \E m \in KeyModes :
       LET k == [analysisKey EXCEPT !.mode = m]
       IN /\ analysisKey' = k
          /\ roman' = Done(romanizeChord(rnChord, k))
  /\ UNCHANGED <<rnChord, othersRoman>>

NextRoman == Romanize \/ SetAnalysisRoot \/ SetAnalysisMode

IdleRoman ==
  /\ rnChord = Sym(Pc("C", <<>>), TypeMajor, None)
  /\ analysisKey = [tonic |-> Pc("C", <<>>), mode |-> "major"]
  /\ roman = Pending

Romanized == IsDone(roman) /\ parseChordSymbol(rnChord) # None
CMajorKey == [tonic |-> Pc("C", <<>>), mode |-> "major"]

\* Reference definitions, written from the semitone arithmetic alone.
RootOffset == (SemitoneRef(Val(rnChord.root)) - SemitoneRef(analysisKey.tonic)) % 12
CircDist(a, b) == Min2((a - b) % 12, (b - a) % 12)
SignedDist(a, b) == LET m == (a - b) % 12 IN IF m >= 6 THEN m - 12 ELSE m
NearestDegree ==
  LET offs == degreeIntervals(analysisKey.mode)
  IN CHOOSE i \in DOMAIN offs :
       /\ \A j \in DOMAIN offs :
            CircDist(RootOffset, offs[i]) <= CircDist(RootOffset, offs[j])
       /\ \A j \in 1..(i - 1) :
            CircDist(RootOffset, offs[j]) > CircDist(RootOffset, offs[i])
AccidentalOf(s) == IF s > 0 THEN Repeat("#", Min2(s, 2)) ELSE Repeat("b", Min2(-s, 2))

\* C8: for every key (12 tonics, major or minor) and every chord root,
\* romanizeChord labels the chord with the scale degree whose diatonic
\* offset is nearest, on the circle of 12 semitones, to (chord root - key
\* tonic) mod 12, the lowest-numbered degree on ties, prefixed with the
\* accidental of the signed distance; a root on a diatonic degree gets
\* that degree and no accidental; the slash bass is ignored; Cm7 in C
\* major is "i7" and F/G in C major is "IV".
C8_NearestDegree ==
  Romanized =>
    LET p    == Val(parseChordSymbol(rnChord))
        core == CoreStr(p.core)
        offs == degreeIntervals(analysisKey.mode)
        deg  == NearestDegree
        sd   == SignedDist(RootOffset, offs[deg])
        ext  == IF isMaj7(core) THEN <<"Δ", "7">>
                ELSE IF isSeventhChord(core) THEN <<"7">> ELSE <<>>
    IN /\ Val(roman) = AccidentalOf(sd)
                       \o qualityToRomanCase(p.qualityGuess, DEGREE_ROMAN[deg], core)
                       \o ext
       /\ (\E i \in DOMAIN offs : offs[i] = RootOffset) =>
            offs[deg] = RootOffset /\ sd = 0
       /\ Val(roman) = romanizeChord([rnChord EXCEPT !.slash = None], analysisKey)
       /\ (analysisKey = CMajorKey /\ rnChord.root = Some(Pc("C", <<>>))
           /\ rnChord.type = TypeM7) => Val(roman) = <<"i", "7">>
       /\ (analysisKey = CMajorKey /\ rnChord.root = Some(Pc("F", <<>>))
           /\ rnChord.type = TypeMajor /\ rnChord.slash = Some(Pc("G", <<>>)))
            => Val(roman) = <<"I", "V">>

\* D flat in C major lies between I and II: the tie goes to I, raised.
C8_Witness ==
  /\ Romanized
  /\ analysisKey = CMajorKey
  /\ rnChord = Sym(Pc("D", <<"b">>), TypeM7, Some(Pc("G", <<>>)))
  /\ Val(roman) = <<"#", "i", "7">>

\* The offset of the chord root above the key tonic, as romanizeChord
\* computes it.
RomanDiff ==
  JsMod(pcToSemitone(Val(parseChordSymbol(rnChord)).tonic)
        - pcToSemitone(analysisKey.tonic) + 12, 12)

\* C21: for every offset of the chord root above the key tonic and each of
\* the seven degree offsets of the key's mode, the signed delta romanizeChord
\* computes for the degree is the signed shortest-path distance: it lies in
\* -6..5 and is congruent to (diff - offset) modulo 12, as
\* signedSemitoneDiff would give.
C21_DegreeDeltaSigned ==
  Romanized =>
    LET offs == degreeIntervals(analysisKey.mode)
    IN \A i \in DOMAIN offs :
         LET d == deltaSigned(RomanDiff, offs[i])
         IN /\ d \in (-6)..5
            /\ (d - (RomanDiff - offs[i])) % 12 = 0
            /\ d = SignedDist(RomanDiff, offs[i])

\* C28: for every key (each of the twelve tonics, major and minor) and
\* every chord root, the signed delta of the degree romanizeChord picks is
\* -1, 0 or 1: the clip to -2..2 changes nothing, and the label starts with
\* a single "b" for -1, a single "#" for 1 and the numeral itself for 0,
\* never with "bb" or "##".
C28_SingleAccidental ==
  Romanized =>
    LET best    == bestDegree(RomanDiff, degreeIntervals(analysisKey.mode))
        clipped == Max2(-2, Min2(2, best.delta))
        label   == Val(roman)
    IN /\ best.delta \in {-1, 0, 1}
       /\ clipped = best.delta
       /\ accidentalPrefix(clipped) \in {<<>>, <<"b">>, <<"#">>}
       /\ label # <<>>
       /\ label[1] = "b" <=> best.delta = -1
       /\ label[1] = "#" <=> best.delta = 1
       /\ Len(label) >= 2 => label[2] \notin {"b", "#"}

\* Db7 in C major is "bII7"; F# in C minor is "#IV".
C28_Witness ==
  /\ Romanized
  /\ \/ /\ analysisKey = [tonic |-> Pc("C", <<>>), mode |-> "major"]
        /\ rnChord = Sym(Pc("D", <<"b">>), TypeDom7, None)
        /\ Val(roman) = <<"b", "I", "I", "7">>
     \/ /\ analysisKey = [tonic |-> Pc("C", <<>>), mode |-> "minor"]
        /\ rnChord = Sym(Pc("F", <<"#">>), TypeMajor, None)
        /\ Val(roman) = <<"#", "I", "V">>

EndsWith(str, suffix) ==
  /\ Len(str) >= Len(suffix)
  /\ SubSeq(str, Len(str) - Len(suffix) + 1, Len(str)) = suffix

\* C22: romanizeChord appends the extension marker "Δ7" whenever the core
\* symbol contains "maj7", "ma7" or "Δ7", in whatever letter case it is
\* written, appends "7" when it contains a "7" but none of those, and
\* appends nothing otherwise.
C22_ExtensionMarker ==
  Romanized =>
    LET core  == CoreStr(Val(parseChordSymbol(rnChord)).core)
        lower == LowerStr(core)
        maj   == \/ Includes(lower, <<"m", "a", "j", "7">>)
                 \/ Includes(lower, <<"m", "a", "7">>)
                 \/ Includes(core, <<"Δ", "7">>)
    IN IF maj THEN EndsWith(Val(roman), <<"Δ", "7">>)
       ELSE IF Includes(core, <<"7">>)
       THEN EndsWith(Val(roman), <<"7">>) /\ ~EndsWith(Val(roman), <<"Δ", "7">>)
       ELSE ~EndsWith(Val(roman), <<"7">>)

\* ------------------------------------------------------------------
\* Chord guide (part_002 6-35, part_003 11-47)
\* ------------------------------------------------------------------

\* toPitchClass on a pitch-class name: the first character uppercased.
toPitchClass(pc) == [letter |-> toUpperCase(pc.letter), acc |-> pc.acc]

\* toFlatPc: FLAT_NORMALIZE, then SHARP_TO_FLAT, else the name as it is.
toFlatPc(noteOrPc) ==
  LET pc == toPitchClass(noteOrPc)
  IN CASE pc = Pc("C", <<"b">>) -> Pc("B", <<>>)
       [] pc = Pc("F", <<"b">>) -> Pc("E", <<>>)
       [] pc = Pc("C", <<"#">>) -> Pc("D", <<"b">>)
       [] pc = Pc("D", <<"#">>) -> Pc("E", <<"b">>)
       [] pc = Pc("F", <<"#">>) -> Pc("G", <<"b">>)
       [] pc = Pc("G", <<"#">>) -> Pc("A", <<"b">>)
       [] pc = Pc("A", <<"#">>) -> Pc("B", <<"b">>)
       [] pc = Pc("B", <<"#">>) -> Pc("C", <<>>)
       [] pc = Pc("E", <<"#">>) -> Pc("F", <<>>)
       [] OTHER -> pc

\* The characters of str before its first "/".
RECURSIVE BeforeSlash(_)
BeforeSlash(str) ==
  IF str = <<>> \/ Head(str) = "/" THEN <<>>
  ELSE <<Head(str)>> \o BeforeSlash(Tail(str))

\* coreSymbol: symbol.split("/")[0]; the root's characters hold no "/".
coreSymbol(sym) == [root |-> sym.root, type |-> BeforeSlash(sym.type)]

\* uniq: the defined entries of list, each once, in order of first
\* occurrence; an entry is None where the array has undefined.
RECURSIVE uniq(_)
uniq(list) ==
  IF list = <<>> THEN <<>>
  ELSE LET init == uniq(SubSeq(list, 1, Len(list) - 1))
           x    == list[Len(list)]
       IN IF x = None \/ (\E i \in DOMAIN init : init[i] = Val(x)) THEN init
          ELSE Append(init, Val(x))

NoGuide == [chordPcs |-> <<>>, extPcs |-> <<>>]
GuideOptions == [add9 : BOOLEAN, add11 : BOOLEAN, add13 : BOOLEAN]

getChordGuidePcs(chordSymbol, opts) ==
  LET core == coreSymbol(chordSymbol)
      c    == ChordGet(core.root, core.type)
  IN IF c.tonic = None THEN NoGuide
     ELSE LET notes == [i \in DOMAIN c.notes |-> toFlatPc(c.notes[i])]
              at(k) == IF k + 1 \in DOMAIN notes THEN Some(notes[k + 1]) ELSE None
              chordPcs == uniq(<<at(0), at(1), at(2), at(3)>>)
              ext == (IF opts.add9 /\ at(4) # None THEN <<at(4)>> ELSE <<>>)
                     \o (IF opts.add11 /\ at(5) # None THEN <<at(5)>> ELSE <<>>)
                     \o (IF opts.add13 /\ at(6) # None THEN <<at(6)>> ELSE <<>>)
              inChord(pc) == \E i \in DOMAIN chordPcs : chordPcs[i] = pc
          IN [chordPcs |-> chordPcs,
              extPcs |-> SelectSeq(uniq(ext), LAMBDA pc : ~inChord(pc))]

\* ------------------------------------------------------------------
\* The core symbol of a chord text, as the chord guide and the parser
\* take it (part_003 11-14, 27-31; voicing.ts 494-498, 516-520)
\* ------------------------------------------------------------------

\* The longest chord text of a run.
MaxText == 5

\* The characters of the texts: a root letter, "b" (the flat sign, and a
\* bass letter in lower case), the sharp sign, a digit, the slash and the
\* blank.
TextChars == {"F", "b", "#", "9", "/", " "}
ChordTexts == SeqsUpTo(TextChars, MaxText)

\* String.prototype.trim on character sequences.
RECURSIVE TrimStart(_)
TrimStart(str) ==
  IF str # <<>> /\ Head(str) = " " THEN TrimStart(Tail(str)) ELSE str

RECURSIVE TrimEnd(_)
TrimEnd(str) ==
  IF str # <<>> /\ str[Len(str)] = " "
  THEN TrimEnd(SubSeq(str, 1, Len(str) - 1))
  ELSE str

trim(str) == TrimEnd(TrimStart(str))

\* coreSymbol on the text: symbol.trim().split("/")[0].trim().
coreSymbolText(symbol) == trim(BeforeSlash(trim(symbol)))

\* \s* matches str.
IsBlank(str) == \A i \in DOMAIN str : str[i] = " "

\* [A-Ga-g][b#]? matches str.
BassLetters == UpperLetters \cup {"a", "b", "c", "d", "e", "f", "g"}
IsBassPc(str) ==
  /\ Len(str) \in {1, 2}
  /\ str[1] \in BassLetters
  /\ Len(str) = 2 => str[2] \in {"b", "#"}

\* The ways /^(.+?)\s*\/\s*([A-Ga-g][b#]?)$/ matches t: <<k, i, j>> where
\* group 1 is the first k characters, the slash is at i and group 2
\* starts at j.
SlashMatches(t) ==
  {m \in (1..Len(t)) \X (1..Len(t)) \X (1..Len(t)) :
     /\ m[1] < m[2] /\ m[2] < m[3]
     /\ IsBlank(SubSeq(t, m[1] + 1, m[2] - 1))
     /\ t[m[2]] = "/"
     /\ IsBlank(SubSeq(t, m[2] + 1, m[3] - 1))
     /\ IsBassPc(SubSeq(t, m[3], Len(t)))}

\* splitSlash on the text; the lazy group 1 takes the shortest match.
splitSlashText(input) ==
  LET t  == trim(input)
      ms == SlashMatches(t)
  IN IF ms = {} THEN [core |-> t, slash |-> None]
     ELSE LET m == CHOOSE x \in ms : \A y \in ms : x[1] <= y[1]
          IN [core  |-> trim(SubSeq(t, 1, m[1])),
              slash |-> Some(normalizePc(Pc(t[m[3]],
                                            SubSeq(t, m[3] + 1, Len(t)))))]

InitCore ==
  /\ chordText \in ChordTexts
  /\ guideCore = None
  /\ parseCore = None

\* getChordGuidePcs up to its lookup: Chord.get(coreSymbol(chordSymbol)).
GuideLookup ==
  /\ guideCore = None
  /\ guideCore' = Some(coreSymbolText(chordText))
  /\ UNCHANGED <<chordText, parseCore, othersCore>>

\* parseChordSymbol up to its lookup: Chord.get(splitSlash(symbol).core).
ParseLookup ==
  /\ parseCore = None
  /\ parseCore' = Some(splitSlashText(chordText).core)
  /\ UNCHANGED <<chordText, guideCore, othersCore>>

NextCore == GuideLookup \/ ParseLookup

IdleCore ==
  /\ chordText = <<>>
  /\ guideCore = None
  /\ parseCore = None

\* C27: for every chord text - those with a "/" that is not followed by
\* a bare bass pitch class and those with more than one "/" included -
\* the core that getChordGuidePcs passes to the chord-theory lookup is
\* the core that parseChordSymbol passes to it.
C27_SameCore ==
  (guideCore # None /\ parseCore # None) => guideCore = parseCore

\* ------------------------------------------------------------------
\* Holds (part_000 334-356, 473-577, 623-651, 760-780)
\* ------------------------------------------------------------------

\* Press events (key-down or pointer-down) handled in one run.
MaxPresses == 2

\* Pad indices, and the two input devices that start and stop a Hold.
Pads == {0, 1}
Sources == {"key", "pointer"}

\* One entry of padModels, from the pad's chord (None where the text has
\* no symbol for the pad), its voicing v and its numeral.
padModelFrom(chord, v, numeral) ==
  IF chord = None
  THEN [chord |-> None, roman |-> <<>>, notes |-> <<>>, midis |-> <<>>,
        ok |-> FALSE]
  ELSE [chord |-> chord,
        roman |-> numeral,
        notes |-> IF v = None THEN <<>> ELSE Val(v).notes,
        midis |-> IF v = None THEN <<>> ELSE Val(v).midis,
        ok    |-> v # None]

\* padModels[i] for a pad with a chord symbol.
padModelOf(chord, preset, omit, centerOctave, shiftBy, key) ==
  padModelFrom(Some(chord),
               buildPadVoicing(chord, centerOctave, preset, shiftBy, omit),
               romanizeChord(chord, key))

\* The pad of an empty chord symbol.
InertPad == padModelFrom(None, None, <<>>)

\* A symbol whose chord type the chord-theory lookup does not know.
UnknownChord == Sym(Pc("C", <<>>), TypeUnknown, None)

\* The pads of the run, in C major around octave 4: the first pad keeps a
\* one-note voicing of C; the second has a symbol the lookup cannot
\* resolve or a two-note voicing of C.
PadTexts ==
  LET CMajor == Sym(Pc("C", <<>>), TypeMajor, None)
      one    == [chord |-> CMajor, preset |-> "PAD_TRIAD_BASS_35R",
                 omit |-> AllOmitted]
      two    == [chord |-> CMajor, preset |-> "DROP2_1357_NO_BASS",
                 omit |-> [NoOmit EXCEPT !.third = TRUE, !.fifth = TRUE]]
      unresolved == [chord |-> UnknownChord, preset |-> "PAD_TRIAD_BASS_35R",
                     omit |-> NoOmit]
  IN {[i \in Pads |-> IF i = 0 THEN one ELSE second] :
        second \in {unresolved, two}}

PadSets ==
  {[i \in Pads |-> padModelOf(txt[i].chord, txt[i].preset, txt[i].omit, 4, 0,
                              CMajorKey)] : txt \in PadTexts}

\* The note names of these voicings: C3 and G4.
HoldNotes == {toNote(48), toNote(67)}

\* perfRef.current while Holds are played: no random draws are made.
HoldPerf == SteadyPerf
NoDraws == [shuffle |-> <<>>, jitter |-> <<>>, velocity |-> <<>>]

RECURSIVE SortedOf(_)
SortedOf(S) ==
  IF S = {} THEN <<>>
  ELSE LET m == CHOOSE x \in S : \A y \in S : x <= y
       IN <<m>> \o SortedOf(S \ {m})

\* rafSyncRef and the animation-frame callbacks requested through it: ref
\* tells whether rafSyncRef.current holds a handle, frames counts the
\* callbacks the browser has queued.
NoFrame == [ref |-> FALSE, frames |-> 0]

requestSyncActiveMidis_NoGuard(r) == [ref |-> TRUE, frames |-> r.frames + 1]

requestSyncActiveMidis(r) ==
  IF r.ref THEN r ELSE [ref |-> TRUE, frames |-> r.frames + 1]

InitHold ==
  /\ holdPads \in PadSets
  /\ activeHold = [i \in Pads |-> None]
  /\ holdMidis = [i \in Pads |-> None]
  /\ transport = {}
  /\ transportState = "stopped"
  /\ nextId = 0
  /\ awaiting = <<>>
  /\ synthReady = FALSE
  /\ sounding = [n \in HoldNotes |-> 0]
  /\ rafSync = NoFrame
  /\ activeMidis = <<>>
  /\ guidePadIdx = 0
  /\ down = [s \in Sources |-> [i \in Pads |-> FALSE]]
  /\ lastInput = [i \in Pads |-> "none"]
  /\ presses = 0
  /\ oneShotMidis = <<>>
  /\ oneShotTimer = None
  /\ timers = {}

\* startHoldByIndex without the test of the pad model (ok, notes).
startHoldByIndex_NoPadCheck(idx, src) ==
  /\ presses < MaxPresses
  /\ ~down[src][idx]
  /\ presses' = presses + 1
  /\ down' = [down EXCEPT ![src][idx] = TRUE]
  /\ lastInput' = [lastInput EXCEPT ![idx] = "press"]
  /\ LET p == holdPads[idx]
     IN IF activeHold[idx] # None
        THEN UNCHANGED <<guidePadIdx, awaiting>>
        ELSE /\ guidePadIdx' = idx
             /\ awaiting' = Append(awaiting,
                              [idx |-> idx, press |-> presses + 1, pad |-> p])
  /\ UNCHANGED <<holdPads, activeHold, holdMidis, transport, transportState,
                 nextId, synthReady, sounding, rafSync, activeMidis,
                 varsOneShot, othersHold>>

\* startHoldByIndex up to its await: the guards, setGuidePadIdx, and the
\* call parked on ensureAudioReady().
startHoldByIndex(idx, src) ==
  /\ presses < MaxPresses
  /\ ~down[src][idx]
  /\ presses' = presses + 1
  /\ down' = [down EXCEPT ![src][idx] = TRUE]
  /\ lastInput' = [lastInput EXCEPT ![idx] = "press"]
  /\ LET p == holdPads[idx]
     IN IF ~p.ok \/ Len(p.notes) = 0 \/ activeHold[idx] # None
        THEN UNCHANGED <<guidePadIdx, awaiting>>
        ELSE /\ guidePadIdx' = idx
             /\ awaiting' = Append(awaiting,
                              [idx |-> idx, press |-> presses + 1, pad |-> p])
  /\ UNCHANGED <<holdPads, activeHold, holdMidis, transport, transportState,
                 nextId, synthReady, sounding, rafSync, activeMidis,
                 varsOneShot, othersHold>>

\* onKeyDown: a digit key that is not auto-repeating.
KeyDown(idx) == startHoldByIndex(idx, "key")

\* onPointerDown of a pad button; the button of an inert pad is disabled.
PointerDown(idx) == holdPads[idx].ok /\ startHoldByIndex(idx, "pointer")

\* The oldest parked startHoldByIndex resumes: ensureAudioReady() finishes
\* (synth, Transport started), then the rest of the function runs.
AudioReady ==
  /\ awaiting # <<>>
  /\ LET t      == Head(awaiting)
         p      == t.pad
         evs    == buildNoteEvents(p.notes, p.midis, HoldPerf, Rat(9, 10), NoDraws)
         ids    == [k \in DOMAIN evs |-> nextId + k - 1]
         notesToRelease == [k \in DOMAIN evs |-> evs[k].note]
     IN /\ awaiting' = Tail(awaiting)
        /\ synthReady' = TRUE
        /\ transportState' = "started"
        /\ holdMidis' = [holdMidis EXCEPT ![t.idx] = Some(p.midis)]
        /\ rafSync' = requestSyncActiveMidis(rafSync)
        /\ transport' = transport \cup
             {[id |-> ids[k], idx |-> t.idx, press |-> t.press,
               note |-> evs[k].note, velocity |-> evs[k].velocity] :
                k \in DOMAIN evs}
        /\ nextId' = nextId + Len(evs)
        /\ activeHold' = [activeHold EXCEPT ![t.idx] =
                            Some([notes |-> notesToRelease, scheduleIds |-> ids])]
  /\ UNCHANGED <<holdPads, sounding, activeMidis, guidePadIdx, down,
                 lastInput, presses, varsOneShot, othersHold>>

\* The Transport runs one scheduled callback: synth.triggerAttack.
TransportFire ==
  /\ transportState = "started"
  /\ \E cb \in transport :
       /\ transport' = transport \ {cb}
       /\ sounding' = [sounding EXCEPT ![cb.note] = @ + 1]
  /\ UNCHANGED <<holdPads, activeHold, holdMidis, transportState, nextId,
                 awaiting, synthReady, rafSync, activeMidis, guidePadIdx,
                 down, lastInput, presses, varsOneShot, othersHold>>

\* synth.triggerRelease(notes): one voice of each named note is released.
triggerRelease(voices, notes) ==
  [n \in DOMAIN voices |-> Max2(0, voices[n] - Count(notes, n))]

\* stopHoldByIndex with Transport.cancel(0) in place of the per-handle
\* Transport.clear: every scheduled callback is cancelled.
stopHoldByIndex_CancelAll(idx, src) ==
  /\ down[src][idx]
  /\ down' = [down EXCEPT ![src][idx] = FALSE]
  /\ lastInput' = [lastInput EXCEPT ![idx] = "release"]
  /\ IF activeHold[idx] = None
     THEN UNCHANGED <<transport, sounding, activeHold, holdMidis, rafSync>>
     ELSE LET h == Val(activeHold[idx])
          IN /\ transport' = {}
             /\ sounding' = IF synthReady THEN triggerRelease(sounding, h.notes)
                            ELSE sounding
             /\ activeHold' = [activeHold EXCEPT ![idx] = None]
             /\ holdMidis' = [holdMidis EXCEPT ![idx] = None]
             /\ rafSync' = requestSyncActiveMidis(rafSync)
  /\ UNCHANGED <<holdPads, transportState, nextId, awaiting, synthReady,
                 activeMidis, guidePadIdx, presses, varsOneShot, othersHold>>

stopHoldByIndex(idx, src) ==
  /\ down[src][idx]
  /\ down' = [down EXCEPT ![src][idx] = FALSE]
  /\ lastInput' = [lastInput EXCEPT ![idx] = "release"]
  /\ IF activeHold[idx] = None
     THEN UNCHANGED <<transport, sounding, activeHold, holdMidis, rafSync>>
     ELSE LET h == Val(activeHold[idx])
          IN /\ transport' = {cb \in transport : cb.id \notin Range(h.scheduleIds)}
             /\ sounding' = IF synthReady THEN triggerRelease(sounding, h.notes)
                            ELSE sounding
             /\ activeHold' = [activeHold EXCEPT ![idx] = None]
             /\ holdMidis' = [holdMidis EXCEPT ![idx] = None]
             /\ rafSync' = requestSyncActiveMidis(rafSync)
  /\ UNCHANGED <<holdPads, transportState, nextId, awaiting, synthReady,
                 activeMidis, guidePadIdx, presses, varsOneShot, othersHold>>

\* onKeyUp.
KeyUp(idx) == stopHoldByIndex(idx, "key")

\* onPointerUp and onPointerCancel.
PointerUp(idx) == stopHoldByIndex(idx, "pointer")

\* clearOneShotViz: the clear-timer is cancelled and the one-shot pitch set
\* emptied.
clearOneShotViz ==
  /\ timers' = IF oneShotTimer = None THEN timers
               ELSE {t \in timers : t.id # Val(oneShotTimer)}
  /\ oneShotTimer' = None
  /\ oneShotMidis' = <<>>

\* stopAll: the window loses focus, is hidden or is left, or the stop
\* button is clicked.
StopAll ==
  /\ transportState' = "stopped"
  /\ transport' = {}
  /\ sounding' = IF synthReady THEN [n \in HoldNotes |-> 0] ELSE sounding
  /\ activeHold' = [i \in Pads |-> None]
  /\ holdMidis' = [i \in Pads |-> None]
  /\ rafSync' = requestSyncActiveMidis(rafSync)
  /\ clearOneShotViz
  /\ lastInput' = [i \in Pads |->
                     IF lastInput[i] = "none" THEN "none" ELSE "stopall"]
  /\ UNCHANGED <<holdPads, nextId, awaiting, synthReady, activeMidis,
                 guidePadIdx, down, presses, othersHold>>

\* The animation-frame callback of requestSyncActiveMidis.
RafSync ==
  /\ rafSync.frames > 0
  /\ rafSync' = [ref |-> FALSE, frames |-> rafSync.frames - 1]
  /\ activeMidis' =
       SortedOf(UNION {Range(Val(holdMidis[i])) : i \in {j \in Pads : holdMidis[j] # None}}
                  \cup Range(oneShotMidis))
  /\ UNCHANGED <<holdPads, activeHold, holdMidis, transport, transportState,
                 nextId, awaiting, synthReady, sounding, guidePadIdx, down,
                 lastInput, presses, varsOneShot, othersHold>>

\* The chord text or a voicing control changes while the page is in use:
\* padModels is rebuilt and padModelsRef follows it.
EditPads ==
  /\ holdPads' \in PadSets \ {holdPads}
  /\ UNCHANGED <<activeHold, holdMidis, transport, transportState, nextId,
                 awaiting, synthReady, sounding, rafSync, activeMidis,
                 guidePadIdx, down, lastInput, presses, varsOneShot,
                 othersHold>>

NextHold ==
  \/ EditPads
  \/ \E i \in Pads : KeyDown(i)
  \/ \E i \in Pads : PointerDown(i)
  \/ \E i \in Pads : KeyUp(i)
  \/ \E i \in Pads : PointerUp(i)
  \/ AudioReady
  \/ TransportFire
  \/ StopAll
  \/ RafSync

IdleHold ==
  /\ holdPads = [i \in Pads |-> InertPad]
  /\ activeHold = [i \in Pads |-> None]
  /\ holdMidis = [i \in Pads |-> None]
  /\ transport = {}
  /\ transportState = "stopped"
  /\ nextId = 0
  /\ awaiting = <<>>
  /\ synthReady = FALSE
  /\ sounding = [n \in HoldNotes |-> 0]
  /\ rafSync = NoFrame
  /\ activeMidis = <<>>
  /\ guidePadIdx = 0
  /\ down = [s \in Sources |-> [i \in Pads |-> FALSE]]
  /\ lastInput = [i \in Pads |-> "none"]
  /\ presses = 0
  /\ oneShotMidis = <<>>
  /\ oneShotTimer = None
  /\ timers = {}

\* C9: a press on an index that is already held is a no-op: in every
\* interleaving of the presses of one index (key and pointer, a second
\* press arriving while the first still awaits audio start included), the
\* pending attack callbacks of an index all come from one press, and each
\* of them is among the schedule handles kept in that index's Hold.
C9_SecondPressNoOp ==
  /\ \A cb \in transport :
       /\ activeHold[cb.idx] # None
       /\ cb.id \in Range(Val(activeHold[cb.idx]).scheduleIds)
  /\ \A c1, c2 \in transport : c1.idx = c2.idx => c1.press = c2.press

\* C10: once the last input for an index is a release or a stop-all (no
\* later press of that index), in every interleaving - a release handled
\* while the press still awaits audio start included - the index has no
\* Hold, no entry in the hold pitch map, and no pending attack callback.
C10_ReleasedHoldGone ==
  \A i \in Pads :
    lastInput[i] \in {"release", "stopall"} =>
      /\ activeHold[i] = None
      /\ holdMidis[i] = None
      /\ \A cb \in transport : cb.idx # i

\* A step that handles the release of index i by device src.
ReleaseStep(i, src) == down[src][i] /\ ~down'[src][i]

\* The pending attack callbacks scheduled for index i.
PendingOf(cbs, i) == {cb \in cbs : cb.idx = i}

\* C11: a release of index i that finds a Hold h for i cancels every
\* pending attack whose handle is kept in h and no other, releases one
\* voice of exactly each note name kept in h (the names captured when the
\* Hold started, whatever the pad holds now), removes i from the Hold map
\* and the hold pitch map, and leaves every other index's Hold, pitch set
\* and pending attacks as they were; a release of an index with no Hold
\* changes no Hold, no pitch set, no callback and no voice.
C11_StopOneHold ==
  [][\A i \in Pads, src \in Sources :
       ReleaseStep(i, src) =>
         IF activeHold[i] = None
         THEN UNCHANGED <<activeHold, holdMidis, transport, sounding>>
         ELSE LET h == Val(activeHold[i])
              IN /\ transport' =
                      {cb \in transport : cb.id \notin Range(h.scheduleIds)}
                 /\ \A n \in HoldNotes :
                      sounding'[n] = Max2(0, sounding[n] - Count(h.notes, n))
                 /\ activeHold'[i] = None
                 /\ holdMidis'[i] = None
                 /\ \A j \in Pads \ {i} :
                      /\ activeHold'[j] = activeHold[j]
                      /\ holdMidis'[j] = holdMidis[j]
                      /\ PendingOf(transport', j) = PendingOf(transport, j)]_vars

\* Index 1 was held and released after its pad lost its chord, while
\* index 0 is still held with an attack pending.
C11_Witness ==
  /\ lastInput[1] = "release"
  /\ activeHold[1] = None
  /\ holdMidis[1] = None
  /\ nextId = 3
  /\ presses = 2
  /\ ~holdPads[1].ok
  /\ activeHold[0] # None
  /\ PendingOf(transport, 0) # {}
  /\ PendingOf(transport, 1) = {}

\* Symbols for which Chord.get finds no tonic: an unknown chord type,
\* with and without a slash bass, and a symbol with no root.
UnresolvableSymbols ==
  {UnknownChord,
   Sym(Pc("D", <<"b">>), TypeUnknown, Some(Pc("g", <<>>))),
   [root |-> None, type |-> TypeUnknown, slash |-> None],
   [root |-> None, type |-> TypeM7, slash |-> None]}

\* The lookups of parseChordSymbol and of getChordGuidePcs find no tonic.
Unresolvable(sym) ==
  /\ ChordGet(splitSlash(sym).core.root, splitSlash(sym).core.type).tonic = None
  /\ ChordGet(coreSymbol(sym).root, coreSymbol(sym).type).tonic = None

\* The three functions give their empty results for an unresolvable symbol.
EmptyResults(sym) ==
  /\ \A pr \in PresetIds, oct \in 1..MaxOctave, o \in {NoOmit, AllOmitted} :
       buildPadVoicing(sym, oct, pr, 0, o) = None
  /\ \A k \in KeySigs : romanizeChord(sym, k) = <<>>
  /\ \A o \in GuideOptions : getChordGuidePcs(sym, o) = NoGuide

UnresolvableEmpty ==
  \A sym \in UnresolvableSymbols : Unresolvable(sym) /\ EmptyResults(sym)

\* A step that handles a press of index i.
PressStep(i) ==
  /\ presses' = presses + 1
  /\ lastInput'[i] = "press"
  /\ \E src \in Sources : ~down[src][i] /\ down'[src][i]

\* C15: for a symbol whose chord-theory lookup finds no tonic,
\* buildPadVoicing returns no value, romanizeChord returns the empty
\* string and getChordGuidePcs returns two empty lists; the pad model of
\* such a symbol is not ok and has no notes, no pitches and no numeral;
\* and a press of such a pad changes nothing of the Holds: no Hold or
\* parked start is added, no attack is scheduled, no pitch is added to
\* the hold pitch map or the sounding set, and the other pads' Holds,
\* pitch sets and callbacks stay as they were.
C15_UnresolvedPadInert ==
  /\ [](/\ UnresolvableEmpty
        /\ \A i \in Pads :
             (holdPads[i].chord # None /\ Unresolvable(Val(holdPads[i].chord))) =>
               /\ Val(holdPads[i].chord) \in UnresolvableSymbols
               /\ ~holdPads[i].ok
               /\ holdPads[i].notes = <<>>
               /\ holdPads[i].midis = <<>>
               /\ holdPads[i].roman = <<>>)
  /\ [][\A i \in Pads :
         (/\ PressStep(i)
          /\ holdPads[i].chord # None
          /\ Unresolvable(Val(holdPads[i].chord))) =>
           UNCHANGED <<activeHold, holdMidis, awaiting, transport, timers,
                       sounding, activeMidis, rafSync, guidePadIdx, nextId>>]_vars

\* Pad 1 has a symbol the lookup cannot resolve and its key is down, with
\* no Hold and no parked start for it; pad 0, pressed too, has its Hold
\* and its attack pending.
C15_Witness ==
  /\ holdPads[1].chord = Some(UnknownChord)
  /\ down["key"][1]
  /\ lastInput[1] = "press"
  /\ presses = 2
  /\ awaiting = <<>>
  /\ activeHold[1] = None
  /\ holdMidis[1] = None
  /\ nextId = 1
  /\ activeHold[0] # None
  /\ PendingOf(transport, 0) # {}

\* ------------------------------------------------------------------
\* Holds and one-shots of the second page variant (part_000 1836-1840,
\* 1938-1975, 2002-2128): Holds are started by the digit keys only, their
\* attacks are window timeouts, and a pad click plays a one-shot
\* ------------------------------------------------------------------

\* The physical keys that produce the same e.key for a pad index.
Keys == {"digit", "numpad"}

\* syncActiveMidis: the sorted union of the hold pitch sets and the
\* one-shot pitch set.
syncActiveMidis(hm, os) ==
  SortedOf(UNION {Range(Val(hm[i])) : i \in {j \in Pads : hm[j] # None}}
             \cup Range(os))

InitKeys ==
  /\ holdPads \in PadSets
  /\ activeHold = [i \in Pads |-> None]
  /\ holdMidis = [i \in Pads |-> None]
  /\ transport = {}
  /\ transportState = "stopped"
  /\ nextId = 0
  /\ awaiting = <<>>
  /\ synthReady = FALSE
  /\ sounding = [n \in HoldNotes |-> 0]
  /\ rafSync = NoFrame
  /\ activeMidis = <<>>
  /\ guidePadIdx = 0
  /\ down = [k \in Keys |-> [i \in Pads |-> FALSE]]
  /\ lastInput = [i \in Pads |-> "none"]
  /\ presses = 0
  /\ oneShotMidis = <<>>
  /\ oneShotTimer = None
  /\ timers = {}

\* onKeyDown up to its await: the guards, setGuidePadIdx, and the call
\* parked on Tone.start().
onKeyDown(idx, key) ==
  /\ presses < MaxPresses
  /\ ~down[key][idx]
  /\ presses' = presses + 1
  /\ down' = [down EXCEPT ![key][idx] = TRUE]
  /\ lastInput' = [lastInput EXCEPT ![idx] = "press"]
  /\ LET p == holdPads[idx]
     IN IF ~p.ok \/ Len(p.notes) = 0 \/ activeHold[idx] # None
        THEN UNCHANGED <<guidePadIdx, awaiting>>
        ELSE /\ guidePadIdx' = idx
             /\ awaiting' = Append(awaiting,
                              [op |-> "hold", idx |-> idx,
                               press |-> presses + 1, pad |-> p])
  /\ UNCHANGED <<holdPads, activeHold, holdMidis, transport, transportState,
                 nextId, synthReady, sounding, rafSync, activeMidis,
                 varsOneShot, othersHold>>

\* playOneShotByPadIndex up to its await; the button of an inert pad is
\* disabled.
playOneShotByPadIndex(idx) ==
  /\ presses < MaxPresses
  /\ holdPads[idx].ok
  /\ Len(holdPads[idx].notes) # 0
  /\ presses' = presses + 1
  /\ guidePadIdx' = idx
  /\ awaiting' = Append(awaiting,
                   [op |-> "oneShot", idx |-> idx, press |-> presses + 1,
                    pad |-> holdPads[idx]])
  /\ UNCHANGED <<holdPads, activeHold, holdMidis, transport, transportState,
                 nextId, synthReady, sounding, rafSync, activeMidis, down,
                 lastInput, varsOneShot, othersHold>>

\* The rest of onKeyDown after Tone.start(): one window timeout per attack.
ResumeHold(t) ==
  LET p      == t.pad
      evs    == buildNoteEvents(p.notes, p.midis, HoldPerf, Rat(9, 10), NoDraws)
      ids    == [k \in DOMAIN evs |-> nextId + k - 1]
      notesToRelease == [k \in DOMAIN evs |-> evs[k].note]
      hm     == [holdMidis EXCEPT ![t.idx] = Some(p.midis)]
  IN /\ holdMidis' = hm
     /\ activeMidis' = syncActiveMidis(hm, oneShotMidis)
     /\ timers' = timers \cup
          {[id |-> ids[k], op |-> "attack", idx |-> t.idx, press |-> t.press,
            note |-> evs[k].note] : k \in DOMAIN evs}
     /\ nextId' = nextId + Len(evs)
     /\ activeHold' = [activeHold EXCEPT ![t.idx] =
                         Some([notes |-> notesToRelease, timeouts |-> ids])]
     /\ UNCHANGED <<oneShotMidis, oneShotTimer>>

\* The rest of playOneShotByPadIndex after Tone.start(): the pad's pitches
\* are shown until the clear-timer fires. triggerAttackRelease pairs each
\* attack with its own release inside the synth.
ResumeOneShot(t) ==
  /\ oneShotMidis' = t.pad.midis
  /\ activeMidis' = syncActiveMidis(holdMidis, t.pad.midis)
  /\ oneShotTimer' = Some(nextId)
  /\ timers' = {x \in timers : oneShotTimer = None \/ x.id # Val(oneShotTimer)}
                 \cup {[id |-> nextId, op |-> "clearViz", idx |-> t.idx,
                        press |-> t.press]}
  /\ nextId' = nextId + 1
  /\ UNCHANGED <<activeHold, holdMidis>>

\* Tone.start() resolves for the oldest parked handler, which then runs
\* to its end.
ToneStarted ==
  /\ awaiting # <<>>
  /\ awaiting' = Tail(awaiting)
  /\ synthReady' = TRUE
  /\ IF Head(awaiting).op = "hold"
     THEN ResumeHold(Head(awaiting))
     ELSE ResumeOneShot(Head(awaiting))
  /\ UNCHANGED <<holdPads, transport, transportState, sounding, rafSync,
                 guidePadIdx, down, lastInput, presses, othersHold>>

\* A window timeout fires: an attack of a Hold, or the clear-timer of the
\* one-shot visualization.
TimeoutFire ==
  /\ \E t \in timers :
       /\ timers' = timers \ {t}
       /\ IF t.op = "attack"
          THEN /\ sounding' = [sounding EXCEPT ![t.note] = @ + 1]
               /\ UNCHANGED <<oneShotMidis, oneShotTimer, activeMidis>>
          ELSE /\ oneShotMidis' = <<>>
               /\ activeMidis' = syncActiveMidis(holdMidis, <<>>)
               /\ oneShotTimer' = None
               /\ UNCHANGED sounding
  /\ UNCHANGED <<holdPads, activeHold, holdMidis, transport, transportState,
                 nextId, awaiting, synthReady, rafSync, guidePadIdx, down,
                 lastInput, presses, othersHold>>

onKeyUp(idx, key) ==
  /\ down[key][idx]
  /\ down' = [down EXCEPT ![key][idx] = FALSE]
  /\ lastInput' = [lastInput EXCEPT ![idx] = "release"]
  /\ IF activeHold[idx] = None
     THEN UNCHANGED <<timers, sounding, activeHold, holdMidis, activeMidis>>
     ELSE LET h  == Val(activeHold[idx])
              hm == [holdMidis EXCEPT ![idx] = None]
          IN /\ timers' = {t \in timers : t.id \notin Range(h.timeouts)}
             /\ sounding' = IF synthReady THEN triggerRelease(sounding, h.notes)
                            ELSE sounding
             /\ activeHold' = [activeHold EXCEPT ![idx] = None]
             /\ holdMidis' = hm
             /\ activeMidis' = syncActiveMidis(hm, oneShotMidis)
  /\ UNCHANGED <<holdPads, transport, transportState, nextId, awaiting,
                 synthReady, rafSync, guidePadIdx, presses, oneShotMidis,
                 oneShotTimer, othersHold>>

\* The timeout handles kept in the stored Holds.
HeldTimeouts ==
  UNION {Range(Val(activeHold[i]).timeouts) :
           i \in {j \in Pads : activeHold[j] # None}}

\* clearAllHoldsAndTimers: the timeouts of every stored Hold and the
\* clear-timer are cancelled, both maps and the one-shot pitch set emptied.
clearAllHoldsAndTimers ==
  /\ timers' = {t \in timers :
                  /\ t.id \notin HeldTimeouts
                  /\ oneShotTimer = None \/ t.id # Val(oneShotTimer)}
  /\ activeHold' = [i \in Pads |-> None]
  /\ holdMidis' = [i \in Pads |-> None]
  /\ oneShotTimer' = None
  /\ oneShotMidis' = <<>>
  /\ activeMidis' = <<>>

\* stopAll: the stop button, or the page is left.
stopAll ==
  /\ transportState' = "stopped"
  /\ transport' = {}
  /\ clearAllHoldsAndTimers
  /\ sounding' = IF synthReady THEN [n \in HoldNotes |-> 0] ELSE sounding
  /\ lastInput' = [i \in Pads |->
                     IF lastInput[i] = "none" THEN "none" ELSE "stopall"]
  /\ UNCHANGED <<holdPads, nextId, awaiting, synthReady, rafSync,
                 guidePadIdx, down, presses, othersHold>>

NextKeys ==
  \/ \E i \in Pads, k \in Keys : onKeyDown(i, k)
  \/ \E i \in Pads, k \in Keys : onKeyUp(i, k)
  \/ \E i \in Pads : playOneShotByPadIndex(i)
  \/ ToneStarted
  \/ TimeoutFire
  \/ stopAll

\* C12: after stop-all, from any state: no index has a Hold, no attack
\* scheduled by any Hold is still pending, the hold pitch map is empty,
\* the one-shot pitch set is empty and its clear-timer cancelled, and, if
\* a synth exists, every voice has been released.
C12_StopAllClean ==
  [][stopAll =>
       /\ \A i \in Pads : activeHold'[i] = None /\ holdMidis'[i] = None
       /\ \A t \in timers' : t.op # "attack"
       /\ transport' = {}
       /\ oneShotMidis' = <<>>
       /\ oneShotTimer' = None
       /\ \A t \in timers' : t.op # "clearViz"
       /\ synthReady => \A n \in HoldNotes : sounding'[n] = 0]_vars

\* C24: the displayed sounding set is recomputed, not patched: after any
\* sequence of Hold starts, Hold stops and stop-alls, whenever no
\* animation-frame callback is pending the displayed set equals the union
\* of the pitch sets of exactly the Holds active at that moment plus the
\* one-shot pitch set; at most one recompute is pending at any time (a
\* handle is kept exactly while one is), so every mutation made while one
\* is pending is reflected by it.
C24_DisplayedSetRecomputed ==
  /\ rafSync.frames <= 1
  /\ rafSync.ref <=> rafSync.frames = 1
  /\ \A i \in Pads :
       /\ holdMidis[i] # None <=> activeHold[i] # None
       /\ activeHold[i] # None =>
            Range(Val(activeHold[i]).notes)
              = {toNote(m) : m \in Range(Val(holdMidis[i]))}
  /\ rafSync.frames = 0 =>
       activeMidis = syncActiveMidis(holdMidis, oneShotMidis)

\* C24 witness: two pads were held and one of them released; the frame
\* callback has run and the display shows the pitches of the pad still held.
C24_Witness ==
  /\ rafSync.frames = 0
  /\ lastInput[0] = "release"
  /\ activeHold[0] = None
  /\ activeHold[1] # None
  /\ holdMidis[1] = Some(<<48, 67>>)
  /\ activeMidis = <<48, 67>>

\* ------------------------------------------------------------------
\* Specifications
\* ------------------------------------------------------------------

InitSpecPitch ==
  /\ InitPitch /\ IdleDrop /\ IdleVoicing /\ IdlePerf /\ IdleRoman
  /\ IdleMud /\ IdleStack /\ IdleCore /\ IdleHold
InitSpecDrop ==
  /\ InitDrop /\ IdlePitch /\ IdleVoicing /\ IdlePerf /\ IdleRoman
  /\ IdleMud /\ IdleStack /\ IdleCore /\ IdleHold
InitSpecVoicing ==
  /\ InitVoicing /\ IdlePitch /\ IdleDrop /\ IdlePerf /\ IdleRoman
  /\ IdleMud /\ IdleStack /\ IdleCore /\ IdleHold
InitSpecPerf ==
  /\ InitPerf /\ IdlePitch /\ IdleDrop /\ IdleVoicing /\ IdleRoman
  /\ IdleMud /\ IdleStack /\ IdleCore /\ IdleHold
InitSpecRoman ==
  /\ InitRoman /\ IdlePitch /\ IdleDrop /\ IdleVoicing /\ IdlePerf
  /\ IdleMud /\ IdleStack /\ IdleCore /\ IdleHold
InitSpecMud ==
  /\ InitMud /\ IdlePitch /\ IdleDrop /\ IdleVoicing /\ IdlePerf /\ IdleRoman
  /\ IdleStack /\ IdleCore /\ IdleHold
InitSpecStack ==
  /\ InitStack /\ IdlePitch /\ IdleDrop /\ IdleVoicing /\ IdlePerf
  /\ IdleRoman /\ IdleMud /\ IdleCore /\ IdleHold
InitSpecHold ==
  /\ InitHold /\ IdlePitch /\ IdleDrop /\ IdleVoicing /\ IdlePerf /\ IdleRoman
  /\ IdleMud /\ IdleStack /\ IdleCore
InitSpecKeys ==
  /\ InitKeys /\ IdlePitch /\ IdleDrop /\ IdleVoicing /\ IdlePerf /\ IdleRoman
  /\ IdleMud /\ IdleStack /\ IdleCore
InitSpecCore ==
  /\ InitCore /\ IdlePitch /\ IdleDrop /\ IdleVoicing /\ IdlePerf /\ IdleRoman
  /\ IdleMud /\ IdleStack /\ IdleHold

SpecPitch == InitSpecPitch /\ [][NextPitch]_vars
SpecDrop  == InitSpecDrop /\ [][NextDrop]_vars
SpecVoicing == InitSpecVoicing /\ [][NextVoicing]_vars
SpecPerf  == InitSpecPerf /\ [][NextPerf]_vars
SpecRoman == InitSpecRoman /\ [][NextRoman]_vars
SpecMud   == InitSpecMud /\ [][NextMud]_vars
SpecStack == InitSpecStack /\ [][NextStack]_vars
SpecHold  == InitSpecHold /\ [][NextHold]_vars
SpecKeys  == InitSpecKeys /\ [][NextKeys]_vars
SpecCore  == InitSpecCore /\ [][NextCore]_vars

====
